---- MODULE Spec2Model ----
(***************************************************************************)
(* youtube_auto_pub: the browser OAuth driver (oauth_automater.py), the    *)
(* auth worker and its rendezvous with the driver (auth_worker.py,         *)
(* uploader.py _run_auth_flow) and the upload orchestrator's get_service   *)
(* (uploader.py).                                                          *)
(*                                                                         *)
(* Three specifications share the variables:                               *)
(*   Spec / FairSpec  one call of authorize_oauth against a scripted page  *)
(*   SpecFlow         the auth worker subprocess beside the parent that    *)
(*                    reads its stdout and runs the driver                 *)
(*   SpecService      successive calls of get_service on one uploader      *)
(***************************************************************************)
EXTENDS Integers, Sequences, FiniteSets, TLC

\* ------------------------------------------------------------------ bounds
\* Largest number of generic Continue screens a scripted page interposes.
MaxK == 16
\* Number of get_service calls made on one uploader.
MaxCalls == 3
\* Largest number of reads of the artifact file, in one wait of the
\* worker, that fail with an error other than FileNotFoundError.
MaxOtherErrors == 2

\* ------------------------------------------------------- program constants
\* oauth_automater.py:480  max_attempts = 15 (interaction rounds)
HandlerMaxAttempts == 15
\* oauth_automater.py:255 and :270  max_attempts = 60 (heading polls)
WaitMaxAttempts == 60
\* oauth_automater.py:470 and :504  for wait_sec in [3, 5, 7]
BrandPolls == 3
\* auth_worker.py:84  max_attempts = 20
WorkerMaxAttempts == 20

\* --------------------------------------------------------------------- URLs
\* A URL is a sequence of characters; the driver's test is Python's
\* substring test  "code=" in url.
NoUrl == <<>>
CodeEq == <<"c", "o", "d", "e", "=">>

IsPrefixAt(pat, s, i) ==
    /\ i + Len(pat) - 1 <= Len(s)
    /\ \A j \in 1..Len(pat) : s[i + j - 1] = pat[j]

Contains(s, pat) == \E i \in 1..(Len(s) + 1) : IsPrefixAt(pat, s, i)

\* The authorization page itself: response_type=code&... holds "code" but
\* never "code=".
AuthPageUrl == <<"a", "/", "?", "t", "=", "c", "o", "d", "e", "&", "i", "=", "1">>
\* Redirects to http://localhost/ carrying the code parameter.
RedirectA == <<"l", "/", "?", "s", "=", "1", "&", "c", "o", "d", "e", "=", "A">>
RedirectB == <<"l", "/", "?", "c", "o", "d", "e", "=", "B", "&", "s", "=", "1">>
\* Content of an artifact left behind by an earlier attempt.
StaleUrl == <<"l", "/", "?", "c", "o", "d", "e", "=", "Z">>

\* --------------------------------------------------------- lines of output
\* A line of the worker's output is a sequence of tokens: the marker
\* phrases, the scheme of a URL, and the rest of a URL or of a message.
UrlMarker == <<"authorization_url", "####">>
VisitMarker == <<"Please visit this URL to authorize this application:">>
SavedMarker == <<"Credentials saved to">>
\* auth_worker.py:70: the URL flow.authorization_url builds
WorkerAuthUrl == <<"https://", "accounts", "1">>
OtherAuthUrl == <<"https://", "accounts", "2">>
\* auth_worker.py:76
UrlLine(url) == UrlMarker \o url \o <<"\n">>
\* auth_worker.py:36
VisitLine(url) == VisitMarker \o <<" ">> \o url \o <<"\n">>
\* auth_worker.py:41 and :123
SavedLine == <<"[Auth]", " ">> \o SavedMarker \o <<" ", "token.json", ".", "\n">>
\* auth_worker.py:89
WaitingLine == <<"[Auth]", " ", "Waiting for authorization code...", "\n">>
\* what an uncaught exception of the worker leaves on stderr, which the
\* parent reads with stdout (uploader.py:350)
TracebackLine == <<"Traceback", "\n">>

\* ------------------------------------------------------------- file system
NoFile == <<"<absent>">>
\* config.py:36  authorization_code_path default; the worker subprocess
\* builds its YouTubeConfig without this field (auth_worker.py:173-177).
DefaultCodePath == "./code.txt"
CodePaths == {DefaultCodePath, "/data/code.txt"}

\* ------------------------------------------------------------ scripted page
\* One screen of the fake page: what the driver's probes see on it.
Screen(kind, url) == [kind |-> kind, url |-> url]
ContinueScreen == Screen("Continue", AuthPageUrl)
BrandScreen == Screen("Brand", AuthPageUrl)
ConsentScreen == Screen("Consent", AuthPageUrl)
BannerScreen == Screen("Banner", AuthPageUrl)
IdleScreen == Screen("Idle", AuthPageUrl)
RedirectScreen(url) == Screen("Redirect", url)

RECURSIVE Repeat(_, _)
Repeat(x, n) == IF n = 0 THEN <<>> ELSE <<x>> \o Repeat(x, n - 1)

\* k generic Continue screens, then the last screen.
ContinueScript(k, last) == Repeat(ContinueScreen, k) \o <<last>>

LastScreens == {RedirectScreen(RedirectA), RedirectScreen(RedirectB), IdleScreen}

MixedScripts ==
    { <<BrandScreen, RedirectScreen(RedirectB)>>,
      <<BrandScreen, ContinueScreen, RedirectScreen(RedirectA)>>,
      <<BannerScreen, ConsentScreen, RedirectScreen(RedirectB)>>,
      <<ConsentScreen, ConsentScreen, IdleScreen>>,
      <<BannerScreen, BrandScreen, BrandScreen, IdleScreen>>,
      <<IdleScreen>> }

Scripts ==
    { ContinueScript(k, last) : k \in 0..MaxK, last \in LastScreens }
        \cup MixedScripts

VARIABLES
    \* --- the scripted page and the driver (oauth_automater.py)
    script,         \* the page's screens, fixed for the call
    flaky,          \* whether DOM probes and clicks may raise
    heading,        \* text of #headingText ("any": whatever a probe sees)
    pos,            \* the screen the browser shows
    checked,        \* whether the consent checkboxes of this screen are checked
    auth_url,       \* argument of authorize_oauth
    self_email,     \* GoogleOAuthAutomator.email is non-empty
    self_password,  \* GoogleOAuthAutomator.password is non-empty
    dpc,            \* the driver's position in authorize_oauth
    polls,          \* loop counter of the current wait / poll loop
    round,          \* i of the interaction loop
    form_checkboxes,    \* line 514's result for this round
    hres,           \* return value of _handle_account_selection_and_continue
    dres,           \* outcome of authorize_oauth
    excFrom,        \* the probe whose exception ended authorize_oauth
    writes,         \* number of _save_url calls of this driver run
    lateOps,        \* page or file operations done after a _save_url
    authorization_code_path,    \* the parent's YouTubeConfig field
    codeFile,       \* path -> content of the artifact file, or NoFile
    \* --- the auth worker subprocess and its parent (auth_worker.py,
    \*     uploader.py _run_auth_flow)
    wpc,            \* the worker's position in process_auth_via_code
    wcount,         \* count of the worker's wait loop
    wrounds,        \* iterations of the worker's wait loop so far
    wcode,          \* code of the worker's wait loop (NoUrl: None or "")
    stdout,         \* lines the worker printed and the parent has not read
    tokenFile,      \* the file at token_file_path: none, old (left by an
                    \* earlier run), new (written by this worker)
    ppc,            \* the parent's position in _run_auth_flow
    pres,           \* outcome of _run_auth_flow
    \* --- the upload orchestrator (uploader.py get_service)
    services,       \* YouTubeUploader._services: cache key -> handle, 0: none
    handles,        \* number of service handles built so far
    calls,          \* number of get_service calls made so far
    gpc,            \* position in get_service
    cache_key,      \* argument of the current call ("": None or empty)
    skip_auth_flow, \* argument of the current call
    remoteToken,    \* the token blob in the credential store
    remoteClient,   \* client_id of the client secret in the store, 0: none
    localToken,     \* the token file at local_token_path
    localClient,    \* client_id of the file at local_client_path, 0: none
    candidates,     \* client_ids of the files at possible_local_paths
    creds,          \* the local variable creds
    log,            \* what the current call has done so far
    result,         \* what the last call returned or raised
    \* --- one call of a helper of the driver or of the worker
    args,           \* what the helper is called on
    fpc,            \* the helper's position: [at, s, k]
    trace,          \* what the helper has done so far
    ret             \* what the helper returned

pageVars == <<script, flaky, heading, pos, checked>>
drvVars == <<auth_url, self_email, self_password, dpc, polls, round, form_checkboxes,
             hres, dres, excFrom, writes, lateOps>>
fileVars == <<authorization_code_path, codeFile>>
flowVars == <<wpc, wcount, wrounds, wcode, stdout, tokenFile, ppc, pres>>
svcVars == <<services, handles, calls, gpc, cache_key, skip_auth_flow,
             remoteToken, remoteClient, localToken, localClient, candidates,
             creds, log, result>>

callVars == <<args, fpc, trace, ret>>

vars == <<pageVars, drvVars, fileVars, flowVars, svcVars, callVars>>

\* ------------------------------------------------------------ page helpers
Cur == script[pos]

\* Whether an injected failure is possible for a probe or click.
Raises == IF flaky THEN BOOLEAN ELSE {FALSE}

HasBrandButton(s) == s.kind = "Brand"
HasBanner(s) == s.kind = "Banner"
HasContinue(s) == s.kind \in {"Continue", "Consent"}
HasCheckboxes(s) == s.kind = "Consent"

\* The screen shown after a click that navigates.
NextPos == IF pos < Len(script) THEN pos + 1 ELSE pos

Navigate == pos' = NextPos /\ checked' = FALSE

\* What the out-of-band inspection returns for a screen: its URL, or None.
OobResults(p) == {NoUrl, script[p].url}

\* oauth_automater.py:293-302
PlaywrightUrlHasCode(p, urlRaises) ==
    IF urlRaises THEN NoUrl
    ELSE IF script[p].url # NoUrl /\ Contains(script[p].url, CodeEq)
         THEN script[p].url
         ELSE NoUrl

\* oauth_automater.py:310-318; oob is _capture_url_from_address_bar()'s result
CheckRedirect(p, urlRaises, oob) ==
    LET url == PlaywrightUrlHasCode(p, urlRaises) IN
    IF url # NoUrl THEN url
    ELSE IF oob # NoUrl /\ Contains(oob, CodeEq) THEN oob
    ELSE NoUrl

\* oauth_automater.py:304-308
SaveUrl(url) ==
    /\ codeFile' = [codeFile EXCEPT ![authorization_code_path] = url]
    /\ writes' = writes + 1

\* A handler that went on after writing (no return at the save).
AfterSaveKeepGoing(npc) == npc

\* Every _save_url call is  return _save_url(url)  (lines 474, 487, 499,
\* 508, 537): the handler returns True and authorize_oauth goes to line 191.
AfterSave(npc) == "ao_return"

\* A loop that gives up five rounds early.
InteractionRoundsShort == HandlerMaxAttempts - 5

\* oauth_automater.py:481  for i in range(max_attempts)
InteractionRounds == HandlerMaxAttempts

\* The outcome of one redirect check: save and return, or go on at npc.
Proceed(url, npc, npolls, nround) ==
    /\ polls' = npolls
    /\ round' = nround
    /\ IF url # NoUrl
       THEN /\ SaveUrl(url)
            /\ hres' = "True"
            /\ dpc' = AfterSave(npc)
       ELSE /\ dpc' = npc
            /\ UNCHANGED <<codeFile, writes, hres>>

\* Page or file operations after a _save_url are recorded.
Touch == lateOps' = (lateOps \/ writes > 0)

\* An exception that reaches authorize_oauth's  except Exception  (line 193)
\* and leaves as ValueError.
Surface(src) ==
    /\ dres' = "ValueError"
    /\ excFrom' = src
    /\ dpc' = "done"

\* ------------------------------------------------- credentials and tokens
\* A token file / credential object: the client_id it was issued for
\* (0: no usable client_id field, or the file does not parse), whether it
\* is past its expiry, whether it carries an access token and a refresh
\* token.
NoTok == [exists |-> FALSE, cid |-> 0, expired |-> FALSE, token |-> FALSE,
          refresh |-> FALSE]
Tok(cid, expired, token, refresh) ==
    [exists |-> TRUE, cid |-> cid, expired |-> expired, token |-> token,
     refresh |-> refresh]

ClientIds == {1, 2}
\* <<expired, token, refresh>>: valid with and without a refresh token,
\* expired with and without one, without an access token
TokenShapes ==
    { <<FALSE, TRUE, TRUE>>, <<FALSE, TRUE, FALSE>>, <<TRUE, TRUE, TRUE>>,
      <<TRUE, TRUE, FALSE>>, <<FALSE, FALSE, TRUE>>, <<FALSE, FALSE, FALSE>> }
Tokens == { Tok(c, sh[1], sh[2], sh[3]) : c \in ClientIds \cup {0}, sh \in TokenShapes }

CacheKeys == {"a", "b"}

\* No get_service call is being made.
ServiceIdle ==
    /\ services = [k \in CacheKeys |-> 0]
    /\ handles = 0
    /\ calls = 0
    /\ gpc = "idle"
    /\ cache_key = ""
    /\ skip_auth_flow = FALSE
    /\ remoteToken = NoTok
    /\ remoteClient = 0
    /\ localToken = NoTok
    /\ localClient = 0
    /\ candidates = <<>>
    /\ creds = NoTok
    /\ log = <<>>
    /\ result = [kind |-> "none", handle |-> 0, by |-> "none"]

\* No helper is being called on its own.
At(at, s_, k) == [at |-> at, s |-> s_, k |-> k]
CallIdle ==
    /\ args = <<>>
    /\ fpc = At("idle", 0, 0)
    /\ trace = <<>>
    /\ ret = "none"

\* ===================================================== authorize_oauth
\* oauth_automater.py:113-142: the dependency check, then the browser opens.
\* HAS_BROWSER_MANAGER is fixed when the module is imported (lines 14-19).
AO_Start ==
    /\ dpc = "ao_start"
    /\ \E HAS_BROWSER_MANAGER \in BOOLEAN :
        IF ~HAS_BROWSER_MANAGER
        THEN /\ dres' = "ImportError"
             /\ excFrom' = "import"
             /\ dpc' = "done"
        ELSE /\ dpc' = "ao_heading"
             /\ UNCHANGED <<dres, excFrom>>
    /\ UNCHANGED <<pageVars, fileVars, auth_url, self_email, self_password, polls, round,
                   form_checkboxes, hres, writes, lateOps>>
    /\ UNCHANGED <<flowVars, svcVars, callVars>>

\* oauth_automater.py:145-149: the heading probe, outside any inner try.
AO_Heading ==
    /\ dpc = "ao_heading"
    /\ Touch
    /\ \E exc \in Raises, chooser \in BOOLEAN :
        IF exc
        THEN Surface("query_selector")
        ELSE /\ dpc' = IF chooser THEN "h_brand0" ELSE "ao_creds"
             /\ UNCHANGED <<dres, excFrom>>
    /\ UNCHANGED <<pageVars, fileVars, auth_url, self_email, self_password, polls, round,
                   form_checkboxes, hres, writes>>
    /\ UNCHANGED <<flowVars, svcVars, callVars>>

\* oauth_automater.py:150 and get_credentials (lines 64-98): the prompts
\* answer with an empty or a non-empty string.
AO_GetCredentials ==
    /\ dpc = "ao_creds"
    /\ \E in_email \in BOOLEAN, in_password \in BOOLEAN :
        LET prompting == ~(self_email /\ self_password)
            email == self_email \/ (prompting /\ in_email)
            password == self_password \/ (prompting /\ in_password)
        IN  IF email /\ password
            THEN /\ dpc' = "ao_email_probe"
                 /\ UNCHANGED <<dres, excFrom>>
            ELSE Surface("get_credentials")
    /\ UNCHANGED <<pageVars, fileVars, auth_url, self_email, self_password, polls, round,
                   form_checkboxes, hres, writes, lateOps>>
    /\ UNCHANGED <<flowVars, svcVars, callVars>>

\* oauth_automater.py:155-163: wait_for_selector('#identifierId') in a try;
\* a timeout means the cached-session chooser is showing.
AO_ProbeEmail ==
    /\ dpc = "ao_email_probe"
    /\ Touch
    /\ \E email_input_found \in BOOLEAN :
        dpc' = IF email_input_found THEN "ao_login" ELSE "ao_chooser"
    /\ polls' = 0
    /\ UNCHANGED <<pageVars, fileVars, auth_url, self_email, self_password, round,
                   form_checkboxes, hres, dres, excFrom, writes>>
    /\ UNCHANGED <<flowVars, svcVars, callVars>>

\* oauth_automater.py:165-178, one page call per step, none of them in a try.
LoginSteps ==
    << "fill", "wait_for_selector", "click", "wait_for_selector", "fill",
       "wait_for_selector", "click" >>

AO_FreshLogin ==
    /\ dpc = "ao_login"
    /\ Touch
    /\ \E exc \in Raises :
        IF exc
        THEN Surface(LoginSteps[polls + 1]) /\ UNCHANGED polls
        ELSE /\ IF polls + 1 = Len(LoginSteps)
                THEN dpc' = "ao_2fa" /\ polls' = 0
                ELSE dpc' = "ao_login" /\ polls' = polls + 1
             /\ UNCHANGED <<dres, excFrom>>
    /\ UNCHANGED <<pageVars, fileVars, auth_url, self_email, self_password, round,
                   form_checkboxes, hres, writes>>
    /\ UNCHANGED <<flowVars, svcVars, callVars>>

\* oauth_automater.py:259 and :274: the headings the two waits look for,
\* and one that is neither.
TwoStepHeading == "2-Step Verification"
ChooserHeading == "Choose your account or a brand account"
SignInHeading == "Sign in"
Headings == {TwoStepHeading, ChooserHeading, SignInHeading}

\* A wait that goes on as long as the heading it looks for is showing.
SeenWhenElse(target) == IF heading = "any" THEN BOOLEAN ELSE {heading # target}

\* oauth_automater.py:258-259 and :273-274: heading and
\* heading.text_content() == target
Seen(target) == IF heading = "any" THEN BOOLEAN ELSE {heading = target}

\* A loop whose counter stands still.
NextPollSame(n) == n

\* oauth_automater.py:256 and :271: for _ in range(max_attempts)
NextPoll(n) == n + 1

\* One poll of _wait_for_2fa / _wait_for_account_selection (lines 252-280):
\* the probe is in a try; the wait returns when the heading is seen or after
\* max_attempts polls.
WaitPoll(here, after, target) ==
    /\ dpc = here
    /\ Touch
    /\ IF polls >= WaitMaxAttempts
       THEN dpc' = after /\ polls' = 0
       ELSE \E exc \in Raises, seen \in Seen(target) :
                IF ~exc /\ seen
                THEN dpc' = after /\ polls' = 0
                ELSE dpc' = here /\ polls' = NextPoll(polls)
    /\ UNCHANGED <<pageVars, fileVars, auth_url, self_email, self_password, round,
                   form_checkboxes, hres, dres, excFrom, writes>>
    /\ UNCHANGED <<flowVars, svcVars, callVars>>

\* oauth_automater.py:181
AO_Wait2FA == WaitPoll("ao_2fa", "ao_acct", TwoStepHeading)

\* oauth_automater.py:184
AO_WaitAccountSelection == WaitPoll("ao_acct", "h_brand0", ChooserHeading)

\* oauth_automater.py:188: _click_account_from_chooser (lines 196-250) wraps
\* every probe and click in a try and its result is not used.
AO_ClickAccountFromChooser ==
    /\ dpc = "ao_chooser"
    /\ Touch
    /\ dpc' = "h_brand0"
    /\ UNCHANGED <<pageVars, fileVars, auth_url, self_email, self_password, polls, round,
                   form_checkboxes, hres, dres, excFrom, writes>>
    /\ UNCHANGED <<flowVars, svcVars, callVars>>

\* oauth_automater.py:190-191: the handler's result is dropped.
AO_Return ==
    /\ dpc = "ao_return"
    /\ dres' = "True"
    /\ dpc' = "done"
    /\ UNCHANGED <<pageVars, fileVars, auth_url, self_email, self_password, polls, round,
                   form_checkboxes, hres, excFrom, writes, lateOps>>
    /\ UNCHANGED <<flowVars, svcVars, callVars>>

\* ============================ _handle_account_selection_and_continue
\* _click_brand_account_button (lines 337-424): True iff a button carrying
\* data-destination-info is found and one of the click strategies goes
\* through; every exception inside is caught (lines 376-423).
ClickBrandAccountButton(exc) == HasBrandButton(Cur) /\ ~exc

\* The redirect checks the page offers at screen p.
RedirectChecks(p) ==
    { CheckRedirect(p, urlRaises, oob) :
        urlRaises \in Raises, oob \in OobResults(p) }

\* oauth_automater.py:468, 476-477
H_BrandInitial ==
    /\ dpc = "h_brand0"
    /\ Touch
    /\ \E exc \in Raises :
        IF ClickBrandAccountButton(exc)
        THEN Navigate /\ dpc' = "h_poll0"
        ELSE UNCHANGED <<pos, checked>> /\ dpc' = "h_loop"
    /\ polls' = 0
    /\ round' = 0
    /\ UNCHANGED <<script, flaky, heading, fileVars, auth_url, self_email, self_password,
                   form_checkboxes, hres, dres, excFrom, writes>>
    /\ UNCHANGED <<flowVars, svcVars, callVars>>

\* oauth_automater.py:470-475: one of the three polls after the initial click.
H_PollInitial ==
    /\ dpc = "h_poll0"
    /\ Touch
    /\ \E url \in RedirectChecks(pos) :
        IF polls + 1 = BrandPolls
        THEN Proceed(url, "h_loop", 0, round)
        ELSE Proceed(url, "h_poll0", polls + 1, round)
    /\ UNCHANGED <<pageVars, authorization_code_path, auth_url, self_email, self_password,
                   form_checkboxes, dres, excFrom>>
    /\ UNCHANGED <<flowVars, svcVars, callVars>>

\* oauth_automater.py:481-487 and 547-548: the loop test, then the first
\* redirect check of the round.
H_LoopHead ==
    /\ dpc = "h_loop"
    /\ IF round >= InteractionRounds
       THEN /\ hres' = "False"
            /\ dpc' = "ao_return"
            /\ UNCHANGED <<polls, round, codeFile, writes, lateOps>>
       ELSE /\ Touch
            /\ \E url \in RedirectChecks(pos) :
                Proceed(url, "h_banner", polls, round)
    /\ UNCHANGED <<pageVars, authorization_code_path, auth_url, self_email, self_password,
                   form_checkboxes, dres, excFrom>>
    /\ UNCHANGED <<flowVars, svcVars, callVars>>

\* oauth_automater.py:491-494: _dump_diagnostics only reads; _dismiss_banners
\* (lines 320-335) clicks a "got it" button, every exception caught.
H_DismissBanners ==
    /\ dpc = "h_banner"
    /\ Touch
    /\ \E exc \in Raises :
        IF HasBanner(Cur) /\ ~exc
        THEN Navigate
        ELSE UNCHANGED <<pos, checked>>
    /\ dpc' = "h_check2"
    /\ UNCHANGED <<script, flaky, heading, fileVars, auth_url, self_email, self_password, polls,
                   round, form_checkboxes, hres, dres, excFrom, writes>>
    /\ UNCHANGED <<flowVars, svcVars, callVars>>

\* oauth_automater.py:497-499
H_Recheck ==
    /\ dpc = "h_check2"
    /\ Touch
    /\ \E url \in RedirectChecks(pos) : Proceed(url, "h_brand", polls, round)
    /\ UNCHANGED <<pageVars, authorization_code_path, auth_url, self_email, self_password,
                   form_checkboxes, dres, excFrom>>
    /\ UNCHANGED <<flowVars, svcVars, callVars>>

\* oauth_automater.py:502
H_Brand ==
    /\ dpc = "h_brand"
    /\ Touch
    /\ \E exc \in Raises :
        IF ClickBrandAccountButton(exc)
        THEN Navigate /\ dpc' = "h_poll"
        ELSE UNCHANGED <<pos, checked>> /\ dpc' = "h_cb"
    /\ polls' = 0
    /\ UNCHANGED <<script, flaky, heading, fileVars, auth_url, self_email, self_password, round,
                   form_checkboxes, hres, dres, excFrom, writes>>
    /\ UNCHANGED <<flowVars, svcVars, callVars>>

\* A round that goes on to the checkboxes after the polls.
AfterBrandPollsFallThrough == "h_cb"

\* oauth_automater.py:511  continue
AfterBrandPolls == "h_loop"

\* oauth_automater.py:504-511: three polls, then  continue.
H_Poll ==
    /\ dpc = "h_poll"
    /\ Touch
    /\ \E url \in RedirectChecks(pos) :
        IF polls + 1 = BrandPolls
        THEN Proceed(url, AfterBrandPolls, 0, round + 1)
        ELSE Proceed(url, "h_poll", polls + 1, round)
    /\ UNCHANGED <<pageVars, authorization_code_path, auth_url, self_email, self_password,
                   form_checkboxes, dres, excFrom>>
    /\ UNCHANGED <<flowVars, svcVars, callVars>>

\* oauth_automater.py:514-524: query_selector_all is outside any try; the
\* is_checked / click of each checkbox is inside one.
H_Checkboxes ==
    /\ dpc = "h_cb"
    /\ Touch
    /\ \E exc \in Raises :
        IF exc
        THEN /\ Surface("query_selector_all")
             /\ UNCHANGED <<form_checkboxes, checked>>
        ELSE /\ form_checkboxes' = HasCheckboxes(Cur)
             /\ IF HasCheckboxes(Cur) /\ ~checked
                THEN \E cbExc \in Raises : checked' = ~cbExc
                ELSE UNCHANGED checked
             /\ dpc' = "h_cont"
             /\ UNCHANGED <<dres, excFrom>>
    /\ UNCHANGED <<script, flaky, heading, pos, fileVars, auth_url, self_email, self_password,
                   polls, round, hres, writes>>
    /\ UNCHANGED <<flowVars, svcVars, callVars>>

\* oauth_automater.py:527-545: the iterated query_selector_all is outside
\* any try; inner_text and click of a button are inside one. The first
\* Continue button whose click goes through ends the scan.
H_Continue ==
    /\ dpc = "h_cont"
    /\ Touch
    /\ \E exc \in Raises :
        IF exc
        THEN /\ Surface("query_selector_all")
             /\ UNCHANGED <<pos, checked, polls, round, hres, codeFile, writes>>
        ELSE /\ UNCHANGED <<dres, excFrom>>
             /\ \E clickExc \in Raises :
                 IF HasContinue(Cur) /\ ~clickExc
                 THEN /\ Navigate
                      /\ \E url \in RedirectChecks(NextPos) :
                            Proceed(url, "h_loop", polls, round + 1)
                 ELSE /\ dpc' = "h_loop"
                      /\ round' = round + 1
                      /\ UNCHANGED <<pos, checked, polls, hres, codeFile, writes>>
    /\ UNCHANGED <<script, flaky, heading, authorization_code_path, auth_url, self_email,
                   self_password, form_checkboxes>>
    /\ UNCHANGED <<flowVars, svcVars, callVars>>

DriverNext ==
    \/ AO_Start
    \/ AO_Heading
    \/ AO_GetCredentials
    \/ AO_ProbeEmail
    \/ AO_FreshLogin
    \/ AO_Wait2FA
    \/ AO_WaitAccountSelection
    \/ AO_ClickAccountFromChooser
    \/ AO_Return
    \/ H_BrandInitial
    \/ H_PollInitial
    \/ H_LoopHead
    \/ H_DismissBanners
    \/ H_Recheck
    \/ H_Brand
    \/ H_Poll
    \/ H_Checkboxes
    \/ H_Continue

\* The driver before authorize_oauth is called.
DriverInit ==
    /\ auth_url = WorkerAuthUrl
    /\ pos = 1
    /\ checked = FALSE
    /\ dpc = "ao_start"
    /\ polls = 0
    /\ round = 0
    /\ form_checkboxes = FALSE
    /\ hres = "none"
    /\ dres = "none"
    /\ excFrom = "none"
    /\ writes = 0
    /\ lateOps = FALSE

\* No worker and no parent: authorize_oauth is called directly.
FlowIdle ==
    /\ wpc = "idle"
    /\ wcount = 0
    /\ wrounds = 0
    /\ wcode = NoUrl
    /\ stdout = <<>>
    /\ tokenFile = "none"
    /\ ppc = "idle"
    /\ pres = "none"

\* One call of authorize_oauth on a scripted page; no artifact file yet.
\* The Continue^k scripts are driven on a page whose probes never fail and
\* with the credentials given to the constructor; the mixed scripts are
\* driven with and without failing probes and with every combination of
\* known and missing credentials.
Init ==
    /\ \/ /\ script \in Scripts
          /\ flaky = FALSE
          /\ self_email = TRUE
          /\ self_password = TRUE
       \/ /\ script \in MixedScripts
          /\ flaky \in BOOLEAN
          /\ self_email \in BOOLEAN
          /\ self_password \in BOOLEAN
    /\ DriverInit
    /\ authorization_code_path = DefaultCodePath
    /\ codeFile = [p \in CodePaths |-> NoFile]
    /\ heading = "any"
    /\ FlowIdle
    /\ ServiceIdle
    /\ CallIdle

Next == DriverNext

Spec == Init /\ [][Next]_vars

\* The driver is one sequential thread: it takes its next step as long as
\* it has one.
FairSpec == Spec /\ WF_vars(Next)

\* ============================================ auth worker (auth_worker.py)
\* The worker subprocess is started with -c, -t, -s and --file-mode only
\* (uploader.py:336-345), so its YouTubeConfig (auth_worker.py:173-177)
\* carries the default authorization_code_path.
WorkerCodePath == DefaultCodePath

\* The characters of the URLs of this model include neither whitespace
\* nor "%" nor "+": strip() and percent-decoding leave them as they are.
IndexOf(s, ch) ==
    IF \E i \in 1..Len(s) : s[i] = ch
    THEN CHOOSE i \in 1..Len(s) : s[i] = ch /\ \A j \in 1..(i - 1) : s[j] # ch
    ELSE 0

\* s.split(ch, 1)[0] and what follows the first ch (empty when there is none)
Before(s, ch) == IF IndexOf(s, ch) = 0 THEN s ELSE SubSeq(s, 1, IndexOf(s, ch) - 1)
After(s, ch) == IF IndexOf(s, ch) = 0 THEN <<>> ELSE SubSeq(s, IndexOf(s, ch) + 1, Len(s))

AmpEntity == <<"&", "a", "m", "p", ";">>

\* A consumer that takes the content as it is written.
HtmlUnescapeKept(s) == s

\* auth_worker.py:103  html.unescape, on the one entity of the alphabet
RECURSIVE HtmlUnescape(_)
HtmlUnescape(s) ==
    IF s = <<>> THEN <<>>
    ELSE IF IsPrefixAt(AmpEntity, s, 1)
         THEN <<"&">> \o HtmlUnescape(SubSeq(s, Len(AmpEntity) + 1, Len(s)))
         ELSE <<Head(s)>> \o HtmlUnescape(Tail(s))

\* auth_worker.py:106  urlparse(code).query: the fragment is cut off first,
\* the query is what follows the first "?".
UrlQuery(s) == After(Before(s, "#"), "?")

\* auth_worker.py:107-108  parse_qs(query).get('code', [None])[0]: fields
\* are separated by "&", a field without "=" or with an empty value is
\* dropped, the first value of the name "code" is taken.
RECURSIVE CodeParam(_)
CodeParam(q) ==
    IF q = <<>> THEN <<>>
    ELSE LET field == Before(q, "&")
             name == Before(field, "=")
             value == After(field, "=")
         IN  IF name = <<"c", "o", "d", "e">> /\ value # <<>>
             THEN value
             ELSE CodeParam(After(q, "&"))

\* auth_worker.py:101-108
ExtractCode(content) == CodeParam(UrlQuery(HtmlUnescape(content)))

\* A worker that leaves an existing artifact where it is.
RemoveFileSkipped(files, path) == files

\* auth_worker.py:128-134  _remove_file
RemoveFile(files, path) == [files EXCEPT ![path] = NoFile]

\* auth_worker.py:62: the first statement of process_auth_via_code.
W_RemoveFile ==
    /\ wpc = "w_remove"
    /\ codeFile' = RemoveFile(codeFile, WorkerCodePath)
    /\ wpc' = "w_emit"
    /\ UNCHANGED <<pageVars, drvVars, authorization_code_path, wcount, wrounds, wcode,
                   stdout, tokenFile, ppc, pres>>
    /\ UNCHANGED <<svcVars, callVars>>

\* auth_worker.py:64-78: the flow is built from the client secrets file
\* (which raises when the file cannot be used), then the URL is printed.
W_EmitUrl ==
    /\ wpc = "w_emit"
    /\ \E clientSecretsOk \in BOOLEAN :
        IF clientSecretsOk
        THEN /\ stdout' = Append(stdout, UrlLine(WorkerAuthUrl))
             /\ wpc' = "w_poll"
        ELSE /\ stdout' = Append(stdout, TracebackLine)
             /\ wpc' = "w_failed"
    /\ wcount' = 0
    /\ wrounds' = 0
    /\ wcode' = NoUrl
    /\ UNCHANGED <<pageVars, drvVars, fileVars, tokenFile, ppc, pres>>
    /\ UNCHANGED <<svcVars, callVars>>

\* auth_worker.py:85-99: one round of the wait loop, or its end.
W_Poll ==
    /\ wpc = "w_poll"
    /\ IF wcount < WorkerMaxAttempts /\ wcode = NoUrl
       THEN /\ wrounds' = wrounds + 1
            /\ \/ \* line 92: FileNotFoundError
                  /\ codeFile[WorkerCodePath] = NoFile
                  /\ wcount' = wcount + 1
                  /\ UNCHANGED <<wcode, stdout, wpc>>
               \/ \* lines 87-91: the file was read
                  /\ codeFile[WorkerCodePath] # NoFile
                  /\ wcode' = codeFile[WorkerCodePath]
                  /\ stdout' = Append(stdout, WaitingLine)
                  /\ wcount' = wcount + 1
                  /\ UNCHANGED wpc
               \/ \* lines 95-96: any other error of open/read: no sleep,
                  \* count unchanged
                  /\ wrounds - wcount < MaxOtherErrors
                  /\ UNCHANGED <<wcode, stdout, wpc, wcount>>
       ELSE /\ IF wcode = NoUrl
               THEN /\ wpc' = "w_failed"
                    /\ stdout' = Append(stdout, TracebackLine)
               ELSE /\ wpc' = "w_parse"
                    /\ UNCHANGED stdout
            /\ UNCHANGED <<wcode, wcount, wrounds>>
    /\ UNCHANGED <<pageVars, drvVars, fileVars, tokenFile, ppc, pres>>
    /\ UNCHANGED <<svcVars, callVars>>

\* auth_worker.py:101-111
W_Parse ==
    /\ wpc = "w_parse"
    /\ IF ExtractCode(wcode) = <<>>
       THEN /\ wpc' = "w_failed"
            /\ stdout' = Append(stdout, TracebackLine)
       ELSE /\ wpc' = "w_exchange"
            /\ UNCHANGED stdout
    /\ UNCHANGED <<pageVars, drvVars, fileVars, wcount, wrounds, wcode, tokenFile,
                   ppc, pres>>
    /\ UNCHANGED <<svcVars, callVars>>

\* auth_worker.py:118-125: the token exchange (which may fail), then the
\* token file and the completion line.
W_Exchange ==
    /\ wpc = "w_exchange"
    /\ \E fetched \in BOOLEAN :
        IF fetched
        THEN /\ tokenFile' = "new"
             /\ stdout' = Append(stdout, SavedLine)
             /\ wpc' = "w_done"
        ELSE /\ stdout' = Append(stdout, TracebackLine)
             /\ wpc' = "w_failed"
             /\ UNCHANGED tokenFile
    /\ UNCHANGED <<pageVars, drvVars, fileVars, wcount, wrounds, wcode, ppc, pres>>
    /\ UNCHANGED <<svcVars, callVars>>

\* ======================================= _run_auth_flow, GUI mode (uploader.py)
\* uploader.py:336-354: the worker subprocess is started.
P_Popen ==
    /\ ppc = "p_start"
    /\ wpc' = "w_remove"
    /\ ppc' = "p_read"
    /\ UNCHANGED <<pageVars, drvVars, fileVars, wcount, wrounds, wcode, stdout,
                   tokenFile, pres>>
    /\ UNCHANGED <<svcVars, callVars>>

\* str.split(sep)[-1]: what follows the last occurrence of sep, the whole
\* line when there is none.
RECURSIVE AfterLast(_, _)
AfterLast(line, sep) ==
    IF \E i \in 1..Len(line) : IsPrefixAt(sep, line, i)
    THEN LET i == CHOOSE i \in 1..Len(line) :
                    /\ IsPrefixAt(sep, line, i)
                    /\ \A j \in 1..(i - 1) : ~IsPrefixAt(sep, line, j)
         IN  AfterLast(SubSeq(line, i + Len(sep), Len(line)), sep)
    ELSE line

Whitespace == {" ", "\n"}

\* str.strip()
RECURSIVE Strip(_)
Strip(line) ==
    IF line = <<>> THEN line
    ELSE IF Head(line) \in Whitespace THEN Strip(Tail(line))
    ELSE IF line[Len(line)] \in Whitespace THEN Strip(SubSeq(line, 1, Len(line) - 1))
    ELSE line

Todo(do, url) == [do |-> do, url |-> url]

\* A parent that takes every line for the completion line.
DispatchAlwaysReturn(line) == Todo("return", NoUrl)

\* uploader.py:359-370: what the parent does with one line.
Dispatch(line) ==
    IF Contains(line, VisitMarker)
    THEN Todo("authorize_oauth", <<"https://">> \o AfterLast(Strip(line), <<"https://">>))
    ELSE IF Contains(line, UrlMarker)
    THEN Todo("authorize_oauth", AfterLast(Strip(line), <<"####">>))
    ELSE IF Contains(line, SavedMarker)
    THEN Todo("return", NoUrl)
    ELSE Todo("nothing", NoUrl)

\* uploader.py:370, 374: Credentials.from_authorized_user_file on
\* token_file_path raises when there is no file and gives what the file
\* holds otherwise.
LoadToken(file) ==
    IF file = "none" THEN "raised"
    ELSE IF file = "new" THEN "creds"
    ELSE "old_creds"

\* uploader.py:356-370: one line of the worker's output. The driver is
\* constructed and authorize_oauth is called inside the loop, so no line
\* is read while it runs.
P_ReadLine ==
    /\ ppc = "p_read"
    /\ stdout # <<>>
    /\ stdout' = Tail(stdout)
    /\ LET todo == Dispatch(Head(stdout)) IN
        IF todo.do = "authorize_oauth"
        THEN /\ ppc' = "p_driver"
             /\ dpc' = "ao_start"
             /\ auth_url' = todo.url
             /\ UNCHANGED pres
        ELSE IF todo.do = "return"
        THEN /\ ppc' = "p_done"
             /\ pres' = LoadToken(tokenFile)
             /\ UNCHANGED <<dpc, auth_url>>
        ELSE UNCHANGED <<ppc, pres, dpc, auth_url>>
    /\ UNCHANGED <<pageVars, fileVars, self_email, self_password, polls, round,
                   form_checkboxes, hres, dres, excFrom, writes, lateOps,
                   wpc, wcount, wrounds, wcode, tokenFile>>
    /\ UNCHANGED <<svcVars, callVars>>

\* uploader.py:363, 368: authorize_oauth returned, or raised out of
\* _run_auth_flow.
P_DriverReturns ==
    /\ ppc = "p_driver"
    /\ dpc = "done"
    /\ IF dres = "True"
       THEN ppc' = "p_read" /\ UNCHANGED pres
       ELSE ppc' = "p_done" /\ pres' = "raised"
    /\ UNCHANGED <<pageVars, drvVars, fileVars, wpc, wcount, wrounds, wcode, stdout,
                   tokenFile>>
    /\ UNCHANGED <<svcVars, callVars>>

\* uploader.py:372-374: the worker's output ended; the token file is loaded,
\* which raises when there is none.
P_Eof ==
    /\ ppc = "p_read"
    /\ stdout = <<>>
    /\ wpc \in {"w_done", "w_failed"}
    /\ ppc' = "p_done"
    /\ pres' = LoadToken(tokenFile)
    /\ UNCHANGED <<pageVars, drvVars, fileVars, wpc, wcount, wrounds, wcode, stdout,
                   tokenFile>>
    /\ UNCHANGED <<svcVars, callVars>>

FlowScripts ==
    { <<BrandScreen, BrandScreen, ConsentScreen, RedirectScreen(RedirectA)>>,
      <<BannerScreen, ContinueScreen, RedirectScreen(RedirectB)>>,
      <<ContinueScreen, IdleScreen>> }

\* One authorization attempt in GUI mode: _run_auth_flow is about to start
\* the worker; an artifact of an earlier attempt may lie at either path,
\* and a token file of an earlier run at token_file_path.
InitFlow ==
    /\ script \in FlowScripts
    /\ flaky = FALSE
    /\ auth_url = NoUrl
    /\ self_email \in BOOLEAN
    /\ self_password = TRUE
    /\ pos = 1
    /\ checked = FALSE
    /\ dpc = "idle"
    /\ polls = 0
    /\ round = 0
    /\ form_checkboxes = FALSE
    /\ hres = "none"
    /\ dres = "none"
    /\ excFrom = "none"
    /\ writes = 0
    /\ lateOps = FALSE
    /\ authorization_code_path \in CodePaths
    /\ \E stale \in {NoFile, StaleUrl} : codeFile = [p \in CodePaths |-> stale]
    /\ wpc = "idle"
    /\ wcount = 0
    /\ wrounds = 0
    /\ wcode = NoUrl
    /\ stdout = <<>>
    /\ tokenFile \in {"none", "old"}
    /\ ppc = "p_start"
    /\ pres = "none"
    /\ heading = "any"
    /\ ServiceIdle
    /\ CallIdle

NextFlow ==
    \/ P_Popen
    \/ P_ReadLine
    \/ P_DriverReturns
    \/ P_Eof
    \/ W_RemoveFile
    \/ W_EmitUrl
    \/ W_Poll
    \/ W_Parse
    \/ W_Exchange
    \/ AO_Start
    \/ AO_Heading
    \/ AO_GetCredentials
    \/ AO_ProbeEmail
    \/ AO_FreshLogin
    \/ AO_Wait2FA
    \/ AO_WaitAccountSelection
    \/ AO_ClickAccountFromChooser
    \/ AO_Return
    \/ H_BrandInitial
    \/ H_PollInitial
    \/ H_LoopHead
    \/ H_DismissBanners
    \/ H_Recheck
    \/ H_Brand
    \/ H_Poll
    \/ H_Checkboxes
    \/ H_Continue

SpecFlow == InitFlow /\ [][NextFlow]_vars

\* ------------------------------------------- the parent's loop over lines
\* Largest number of lines of output the parent is given to read.
MaxLines == 2

\* The lines auth_worker.py prints (lines 36, 41, 76, 89, 123), the URL
\* being one of two, and what an uncaught exception leaves.
Lines ==
    { UrlLine(WorkerAuthUrl), UrlLine(OtherAuthUrl),
      VisitLine(WorkerAuthUrl), VisitLine(OtherAuthUrl),
      SavedLine, WaitingLine, TracebackLine }

LineScripts == UNION { [1..n -> Lines] : n \in 0..MaxLines }

\* uploader.py:356: the worker has ended and its output waits in the pipe.
\* The completion line is printed after the token file was written
\* (auth_worker.py:39-41, 121-123).
InitLines ==
    /\ script \in FlowScripts
    /\ flaky = FALSE
    /\ auth_url = NoUrl
    /\ self_email = TRUE
    /\ self_password = TRUE
    /\ pos = 1
    /\ checked = FALSE
    /\ dpc = "idle"
    /\ polls = 0
    /\ round = 0
    /\ form_checkboxes = FALSE
    /\ hres = "none"
    /\ dres = "none"
    /\ excFrom = "none"
    /\ writes = 0
    /\ lateOps = FALSE
    /\ authorization_code_path = DefaultCodePath
    /\ codeFile = [p \in CodePaths |-> NoFile]
    /\ wpc \in {"w_done", "w_failed"}
    /\ wcount = 0
    /\ wrounds = 0
    /\ wcode = NoUrl
    /\ stdout \in LineScripts
    /\ tokenFile \in {"none", "old", "new"}
    /\ (\E i \in 1..Len(stdout) : Contains(stdout[i], SavedMarker)) => tokenFile = "new"
    /\ ppc = "p_read"
    /\ pres = "none"
    /\ heading = "any"
    /\ ServiceIdle
    /\ CallIdle

NextLines ==
    \/ P_ReadLine
    \/ P_DriverReturns
    \/ P_Eof
    \/ AO_Start
    \/ AO_Heading
    \/ AO_GetCredentials
    \/ AO_ProbeEmail
    \/ AO_FreshLogin
    \/ AO_Wait2FA
    \/ AO_WaitAccountSelection
    \/ AO_ClickAccountFromChooser
    \/ AO_Return
    \/ H_BrandInitial
    \/ H_PollInitial
    \/ H_LoopHead
    \/ H_DismissBanners
    \/ H_Recheck
    \/ H_Brand
    \/ H_Poll
    \/ H_Checkboxes
    \/ H_Continue

SpecLines == InitLines /\ [][NextLines]_vars

\* ================================================ get_service (uploader.py)
\* Number of entries of possible_local_paths that differ from
\* local_client_path (uploader.py:186-206).
NumCandidates == 2

Pending == [kind |-> "pending", handle |-> 0, by |-> "none"]
Returned(h) == [kind |-> "service", handle |-> h, by |-> "none"]
ReturnedNone == [kind |-> "None", handle |-> 0, by |-> "none"]
Raised(by) == [kind |-> "raised", handle |-> 0, by |-> by]

\* One thing the call did: the operation, the credential or token it was
\* done with and the client_id of the client secret at that moment.
Ev(op, c) == [op |-> op, cred |-> c, cur |-> localClient]

\* A cache that is never consulted.
CacheHitNever(key) == FALSE

\* uploader.py:170  if cache_key and cache_key in self._services
CacheHit(key) == key # "" /\ services[key] # 0

\* A check that accepts every token.
IsTokenForClientAlways(tok, client_id) == TRUE

\* uploader.py:117-140  _is_token_for_client
IsTokenForClient(tok, client_id) ==
    IF ~tok.exists THEN TRUE
    ELSE IF tok.cid = 0 THEN FALSE
    ELSE tok.cid = client_id

\* Credentials.valid: an access token that is not expired.
Valid(c) == c.exists /\ c.token /\ ~c.expired

\* A refresh of whatever was loaded.
NeedsRefreshAlways(c) == c.exists

\* uploader.py:267  if creds and creds.expired and creds.refresh_token
NeedsRefresh(c) == c.exists /\ c.expired /\ c.refresh

\* A failed refresh that keeps the credential.
RefreshFailureKept(c) == c

\* uploader.py:275-277  except Exception: creds = None
RefreshFailure(c) == NoTok

\* An authorization flow for every credential that is not valid.
NeedsAuthFlowWheneverInvalid(c) == ~c.exists \/ ~Valid(c)

\* uploader.py:280-281
NeedsAuthFlow(c) == (~c.exists \/ ~Valid(c)) /\ (~c.exists \/ ~c.refresh)

\* A loop that applies every candidate with a client_id.
ApplicableWithAnyId(local_id, stored_id) == local_id # 0

\* uploader.py:211-218: whether a candidate file is applied over the stored
\* client secret (0: the file is missing or yields no client_id).
Applicable(local_id, stored_id) ==
    local_id # 0 /\ (stored_id = 0 \/ local_id # stored_id)

\* Index of the candidate the loop of lines 211-242 applies, 0 if none.
FirstApplicable(cands, stored_id) ==
    IF \E i \in 1..Len(cands) : Applicable(cands[i], stored_id)
    THEN CHOOSE i \in 1..Len(cands) :
            /\ Applicable(cands[i], stored_id)
            /\ \A j \in 1..(i - 1) : ~Applicable(cands[j], stored_id)
    ELSE 0

\* uploader.py:165-174
G_Call ==
    /\ gpc = "idle"
    /\ calls < MaxCalls
    /\ calls' = calls + 1
    /\ log' = <<>>
    /\ creds' = NoTok
    /\ \E key \in CacheKeys \cup {""}, skip \in BOOLEAN :
        /\ cache_key' = key
        /\ skip_auth_flow' = skip
        /\ IF CacheHit(key)
           THEN result' = Returned(services[key]) /\ gpc' = "idle"
           ELSE result' = Pending /\ gpc' = "download"
    /\ UNCHANGED <<services, handles, remoteToken, remoteClient, localToken,
                   localClient, candidates>>
    /\ UNCHANGED <<pageVars, drvVars, fileVars, flowVars, callVars>>

\* uploader.py:177-178 with token_manager.py:93-127: a file that is in the
\* store and can be fetched replaces the local one; otherwise the local
\* path is returned as it is.
G_Download ==
    /\ gpc = "download"
    /\ \E gotToken \in BOOLEAN, gotClient \in BOOLEAN :
        /\ localToken' = IF gotToken /\ remoteToken.exists
                         THEN remoteToken ELSE localToken
        /\ localClient' = IF gotClient /\ remoteClient # 0
                          THEN remoteClient ELSE localClient
    /\ log' = Append(log, Ev("download", NoTok))
    /\ gpc' = "reconcile"
    /\ UNCHANGED <<services, handles, calls, cache_key, skip_auth_flow,
                   remoteToken, remoteClient, candidates, creds, result>>
    /\ UNCHANGED <<pageVars, drvVars, fileVars, flowVars, callVars>>

\* uploader.py:186-242
G_Reconcile ==
    /\ gpc = "reconcile"
    /\ LET stored_id == localClient
           i == FirstApplicable(candidates, stored_id)
       IN  IF i = 0
           THEN UNCHANGED <<localClient, localToken, log>>
           ELSE /\ localClient' = candidates[i]
                /\ IF stored_id # 0 /\ localToken.exists
                   THEN /\ localToken' = NoTok
                        /\ log' = Append(log, Ev("delete_token", localToken))
                   ELSE UNCHANGED <<localToken, log>>
    /\ gpc' = "validate"
    /\ UNCHANGED <<services, handles, calls, cache_key, skip_auth_flow,
                   remoteToken, remoteClient, candidates, creds, result>>
    /\ UNCHANGED <<pageVars, drvVars, fileVars, flowVars, callVars>>

\* uploader.py:244-254
G_Validate ==
    /\ gpc = "validate"
    /\ LET current_client_id == localClient IN
        IF /\ current_client_id # 0
           /\ ~IsTokenForClient(localToken, current_client_id)
           /\ localToken.exists
        THEN /\ localToken' = NoTok
             /\ log' = Append(log, Ev("delete_token", localToken))
        ELSE UNCHANGED <<localToken, log>>
    /\ gpc' = "load"
    /\ UNCHANGED <<services, handles, calls, cache_key, skip_auth_flow,
                   remoteToken, remoteClient, localClient, candidates, creds,
                   result>>
    /\ UNCHANGED <<pageVars, drvVars, fileVars, flowVars, callVars>>

\* uploader.py:256-264: from_authorized_user_file raises on a file without
\* the fields it needs; the exception is caught and creds stays None.
G_Load ==
    /\ gpc = "load"
    /\ IF localToken.exists
       THEN IF localToken.cid # 0
            THEN /\ creds' = localToken
                 /\ log' = Append(log, Ev("load", localToken))
            ELSE /\ creds' = NoTok
                 /\ log' = Append(log, Ev("load_failed", localToken))
       ELSE UNCHANGED <<log, creds>>
    /\ gpc' = "refresh"
    /\ UNCHANGED <<services, handles, calls, cache_key, skip_auth_flow,
                   remoteToken, remoteClient, localToken, localClient,
                   candidates, result>>
    /\ UNCHANGED <<pageVars, drvVars, fileVars, flowVars, callVars>>

\* A write of the token file that does not wait for the refresh.
RewritesAlways(refreshed) == TRUE

\* uploader.py:270-273: the file is written in the try, after refresh().
Rewrites(refreshed) == refreshed

\* uploader.py:266-277
G_Refresh ==
    /\ gpc = "refresh"
    /\ IF NeedsRefresh(creds)
       THEN \E refreshed \in BOOLEAN :
            LET fresh == [creds EXCEPT !.expired = FALSE, !.token = TRUE] IN
            /\ IF refreshed
               THEN /\ creds' = fresh
                    /\ log' = Append(log, Ev("refresh_ok", creds))
               ELSE /\ creds' = RefreshFailure(creds)
                    /\ log' = Append(log, Ev("refresh_failed", creds))
            /\ localToken' = IF Rewrites(refreshed) THEN fresh ELSE localToken
       ELSE UNCHANGED <<creds, localToken, log>>
    /\ gpc' = "auth"
    /\ UNCHANGED <<services, handles, calls, cache_key, skip_auth_flow,
                   remoteToken, remoteClient, localClient, candidates, result>>
    /\ UNCHANGED <<pageVars, drvVars, fileVars, flowVars, callVars>>

\* uploader.py:279-286 with _run_auth_flow (lines 318-374): the flow saves a
\* token issued for the client secret in use, or the driver (or, in
\* headless mode, the worker) raises, or the worker ends without saving and
\* whatever token file is there is loaded (line 374).
G_AuthFlow ==
    /\ gpc = "auth"
    /\ IF ~NeedsAuthFlow(creds)
       THEN /\ gpc' = "upload"
            /\ UNCHANGED <<creds, localToken, log, result>>
       ELSE IF skip_auth_flow
       THEN /\ gpc' = "idle"
            /\ result' = ReturnedNone
            /\ UNCHANGED <<creds, localToken, log>>
       ELSE LET started == Append(log, Ev("auth_flow", creds)) IN
            \E outcome \in {"saved", "raised", "ended"} :
                IF outcome = "saved" /\ localClient # 0
                THEN LET issued == Tok(localClient, FALSE, TRUE, TRUE) IN
                     /\ localToken' = issued
                     /\ creds' = issued
                     /\ log' = Append(started, Ev("load", issued))
                     /\ gpc' = "upload"
                     /\ UNCHANGED result
                ELSE IF outcome = "ended" /\ localToken.exists /\ localToken.cid # 0
                THEN /\ creds' = localToken
                     /\ log' = Append(started, Ev("load", localToken))
                     /\ gpc' = "upload"
                     /\ UNCHANGED <<localToken, result>>
                ELSE /\ gpc' = "idle"
                     /\ log' = started
                     /\ result' = Raised("auth_flow")
                     /\ UNCHANGED <<creds, localToken>>
    /\ UNCHANGED <<services, handles, calls, cache_key, skip_auth_flow,
                   remoteToken, remoteClient, localClient, candidates>>
    /\ UNCHANGED <<pageVars, drvVars, fileVars, flowVars, callVars>>

\* uploader.py:288-289 with token_manager.py:67-91: both files are read,
\* encrypted and uploaded; a missing file or a failed upload raises.
G_Upload ==
    /\ gpc = "upload"
    /\ log' = Append(log, Ev("upload", localToken))
    /\ \E uploaded \in BOOLEAN :
        IF uploaded /\ localToken.exists /\ localClient # 0
        THEN /\ remoteToken' = localToken
             /\ remoteClient' = localClient
             /\ gpc' = "build"
             /\ UNCHANGED result
        ELSE /\ gpc' = "idle"
             /\ result' = Raised("upload")
             /\ UNCHANGED <<remoteToken, remoteClient>>
    /\ UNCHANGED <<services, handles, calls, cache_key, skip_auth_flow,
                   localToken, localClient, candidates, creds>>
    /\ UNCHANGED <<pageVars, drvVars, fileVars, flowVars, callVars>>

\* A cache that files the handle under every key.
StoreServiceUnderEveryKey(svcs, key, handle) == [k \in CacheKeys |-> handle]

\* uploader.py:313-314  if cache_key: self._services[cache_key] = service
StoreService(svcs, key, handle) ==
    IF key # "" THEN [svcs EXCEPT ![key] = handle] ELSE svcs

\* uploader.py:291-316
G_Build ==
    /\ gpc = "build"
    /\ handles' = handles + 1
    /\ log' = Append(log, Ev("build", creds))
    /\ services' = StoreService(services, cache_key, handles + 1)
    /\ result' = Returned(handles + 1)
    /\ gpc' = "idle"
    /\ UNCHANGED <<calls, cache_key, skip_auth_flow, remoteToken, remoteClient,
                   localToken, localClient, candidates, creds>>
    /\ UNCHANGED <<pageVars, drvVars, fileVars, flowVars, callVars>>

\* A new uploader (uploader.py:84-92): an empty cache, nothing decrypted
\* locally yet; the store and the candidate files hold anything.
InitService ==
    /\ services = [k \in CacheKeys |-> 0]
    /\ handles = 0
    /\ calls = 0
    /\ gpc = "idle"
    /\ cache_key = ""
    /\ skip_auth_flow = FALSE
    /\ remoteToken \in Tokens \cup {NoTok}
    /\ remoteClient \in ClientIds \cup {0}
    /\ localToken = NoTok
    /\ localClient = 0
    /\ candidates \in [1..NumCandidates -> ClientIds \cup {0}]
    /\ creds = NoTok
    /\ log = <<>>
    /\ result = [kind |-> "none", handle |-> 0, by |-> "none"]
    /\ script = <<IdleScreen>>
    /\ flaky = FALSE
    /\ auth_url = NoUrl
    /\ self_email = TRUE
    /\ self_password = TRUE
    /\ pos = 1
    /\ checked = FALSE
    /\ dpc = "idle"
    /\ polls = 0
    /\ round = 0
    /\ form_checkboxes = FALSE
    /\ hres = "none"
    /\ dres = "none"
    /\ excFrom = "none"
    /\ writes = 0
    /\ lateOps = FALSE
    /\ authorization_code_path = DefaultCodePath
    /\ codeFile = [p \in CodePaths |-> NoFile]
    /\ heading = "any"
    /\ FlowIdle
    /\ CallIdle

NextService ==
    \/ G_Call
    \/ G_Download
    \/ G_Reconcile
    \/ G_Validate
    \/ G_Load
    \/ G_Refresh
    \/ G_AuthFlow
    \/ G_Upload
    \/ G_Build

SpecService == InitService /\ [][NextService]_vars

\* ============================== _click_account_from_chooser (lines 196-250)
\* Largest number of elements of a scripted account chooser.
MaxItems == 2

\* str.lower() on the alphabet of the chooser's strings.
LowerChar(c) ==
    CASE c = "A" -> "a"
      [] c = "B" -> "b"
      [] c = "X" -> "x"
      [] OTHER -> c

\* A comparison that does not fold case.
LowerKept(str) == str

\* oauth_automater.py:227  email.lower(), text.lower()
Lower(str) == [i \in 1..Len(str) |-> LowerChar(str[i])]

\* An element of the chooser page: the list it sits in ("ul", "ol", "li"
\* for a list item outside both, "none" for an element that is no list
\* item), its data-identifier and data-email attributes (<<>>: absent) and
\* its inner text.
Element(list, ident, mail, text) ==
    [list |-> list, ident |-> ident, mail |-> mail, text |-> text]

MailA == <<"a", "@", "x">>
MailB == <<"b", "@", "x">>
MailBUpper == <<"B", "@", "X">>

ChooserElements ==
    { Element("ul", MailBUpper, <<>>, MailB),
      Element("ul", <<>>, MailBUpper, MailB),
      Element("ul", MailA, MailA, MailA),
      Element("ul", MailB, MailB, MailB),
      Element("ol", MailB, <<>>, MailB),
      Element("ol", <<>>, <<>>, MailA),
      Element("li", <<>>, <<>>, MailBUpper),
      Element("li", <<>>, <<>>, MailA),
      Element("none", MailBUpper, <<>>, MailA),
      Element("none", <<>>, <<>>, MailBUpper) }

ChooserPages ==
    UNION { [1..n -> ChooserElements] : n \in 0..MaxItems }

\* The exact-match selectors tried in the other order.
AttrSelectorsSwapped == <<"data-email", "data-identifier">>

\* oauth_automater.py:204-207
AttrSelectors == <<"data-identifier", "data-email">>
\* oauth_automater.py:221
TextSelectors == <<"ul li", "ol li", "li">>
\* oauth_automater.py:238
FirstSelectors == <<"ul li", "li">>

AttrOf(el, name) == IF name = "data-identifier" THEN el.ident ELSE el.mail

\* page.query_selector('[name="email"]'): the first element, in document
\* order, whose attribute equals the email; 0 when there is none.
QueryAttr(items, name, email) ==
    IF \E i \in 1..Len(items) : AttrOf(items[i], name) = email
    THEN CHOOSE i \in 1..Len(items) :
            /\ AttrOf(items[i], name) = email
            /\ \A j \in 1..(i - 1) : AttrOf(items[j], name) # email
    ELSE 0

MatchesLi(el, li_sel) ==
    CASE li_sel = "ul li" -> el.list = "ul"
      [] li_sel = "ol li" -> el.list = "ol"
      [] OTHER -> el.list \in {"ul", "ol", "li"}

\* page.query_selector_all(li_sel): the matching elements in document order,
\* as positions on the page.
QueryAllLi(items, li_sel) ==
    SelectSeq([i \in 1..Len(items) |-> i],
              LAMBDA i : MatchesLi(items[i], li_sel))

\* oauth_automater.py:227  email and email.lower() in text.lower()
TextMatches(text, email) ==
    email # <<>> /\ Contains(Lower(text), Lower(email))

\* A click on an element that was found: the level of preference it was
\* found at, its position on the page, whether the click went through.
Click(level, el, clicked) == [level |-> level, el |-> el, clicked |-> clicked]

\* oauth_automater.py:209-218: one exact-match selector.
CA_Selector ==
    /\ fpc.at = "selectors"
    /\ \E probeExc \in Raises, clickExc \in Raises :
        LET name == AttrSelectors[fpc.s]
            el == IF probeExc THEN 0 ELSE QueryAttr(args.items, name, args.email)
            level == IF name = "data-identifier" THEN "a" ELSE "b"
            onward == IF fpc.s < Len(AttrSelectors)
                      THEN At("selectors", fpc.s + 1, 1)
                      ELSE At("text", 1, 1)
        IN  IF el # 0
            THEN /\ trace' = Append(trace, Click(level, el, ~clickExc))
                 /\ IF clickExc
                    THEN fpc' = onward /\ UNCHANGED ret
                    ELSE fpc' = At("done", 0, 0) /\ ret' = "True"
            ELSE /\ fpc' = onward
                 /\ UNCHANGED <<trace, ret>>
    /\ UNCHANGED args
    /\ UNCHANGED <<pageVars, drvVars, fileVars, flowVars, svcVars>>

\* oauth_automater.py:221-235: one list item of one li selector, or the
\* end of that selector's items.
CA_TextItem ==
    /\ fpc.at = "text"
    /\ \E queryExc \in Raises, textExc \in Raises, clickExc \in Raises :
        LET items == IF queryExc /\ fpc.k = 1 THEN <<>>
                     ELSE QueryAllLi(args.items, TextSelectors[fpc.s])
            onward == IF fpc.s < Len(TextSelectors)
                      THEN At("text", fpc.s + 1, 1)
                      ELSE At("first", 1, 1)
        IN  IF fpc.k > Len(items)
            THEN fpc' = onward /\ UNCHANGED <<trace, ret>>
            ELSE LET el == items[fpc.k] IN
                 IF ~textExc /\ TextMatches(args.items[el].text, args.email)
                 THEN /\ trace' = Append(trace, Click("c", el, ~clickExc))
                      /\ IF clickExc
                         THEN fpc' = At("text", fpc.s, fpc.k + 1) /\ UNCHANGED ret
                         ELSE fpc' = At("done", 0, 0) /\ ret' = "True"
                 ELSE /\ fpc' = At("text", fpc.s, fpc.k + 1)
                      /\ UNCHANGED <<trace, ret>>
    /\ UNCHANGED args
    /\ UNCHANGED <<pageVars, drvVars, fileVars, flowVars, svcVars>>

\* oauth_automater.py:237-250: the first item of one li selector, and the
\* return of False after the last one.
CA_FirstItem ==
    /\ fpc.at = "first"
    /\ \E probeExc \in Raises, clickExc \in Raises :
        LET items == QueryAllLi(args.items, FirstSelectors[fpc.s])
            first == IF probeExc \/ items = <<>> THEN 0 ELSE items[1]
            onward == IF fpc.s < Len(FirstSelectors)
                      THEN At("first", fpc.s + 1, 1)
                      ELSE At("done", 0, 0)
            given_up == fpc.s = Len(FirstSelectors)
        IN  IF first # 0 /\ ~clickExc
            THEN /\ trace' = Append(trace, Click("d", first, TRUE))
                 /\ fpc' = At("done", 0, 0)
                 /\ ret' = "True"
            ELSE /\ trace' = IF first # 0
                             THEN Append(trace, Click("d", first, FALSE))
                             ELSE trace
                 /\ fpc' = onward
                 /\ ret' = IF given_up THEN "False" ELSE ret
    /\ UNCHANGED args
    /\ UNCHANGED <<pageVars, drvVars, fileVars, flowVars, svcVars>>

\* Everything but the helper's own variables, at rest.
OthersIdle ==
    /\ script = <<IdleScreen>>
    /\ heading = "any"
    /\ auth_url = NoUrl
    /\ self_email = TRUE
    /\ self_password = TRUE
    /\ pos = 1
    /\ checked = FALSE
    /\ dpc = "idle"
    /\ polls = 0
    /\ round = 0
    /\ form_checkboxes = FALSE
    /\ hres = "none"
    /\ dres = "none"
    /\ excFrom = "none"
    /\ writes = 0
    /\ lateOps = FALSE
    /\ authorization_code_path = DefaultCodePath
    /\ codeFile = [p \in CodePaths |-> NoFile]
    /\ FlowIdle
    /\ ServiceIdle

\* _click_account_from_chooser(page, email) on a scripted chooser page;
\* the email is never empty (get_credentials raises otherwise).
InitChooser ==
    /\ \E items \in ChooserPages, email \in {MailB, MailBUpper} :
        args = [items |-> items, email |-> email]
    /\ flaky \in BOOLEAN
    /\ fpc = At("selectors", 1, 1)
    /\ trace = <<>>
    /\ ret = "none"
    /\ OthersIdle

NextChooser ==
    \/ CA_Selector
    \/ CA_TextItem
    \/ CA_FirstItem

SpecChooser == InitChooser /\ [][NextChooser]_vars

\* ============================= _click_brand_account_button (lines 337-424)
\* The strategies with two of them exchanged.
StrategiesReordered ==
    << "mouse", "dispatch_event", "js_click", "force_click", "focus_enter",
       "parent_click" >>

\* oauth_automater.py:355-419, in the order of the code.
Strategies ==
    << "mouse", "js_click", "dispatch_event", "force_click", "focus_enter",
       "parent_click" >>

\* A strategy succeeds when its try block reaches  return True; strategy 1
\* also ends without an exception and without a click when bounding_box()
\* returns None (line 360).
StrategySucceeded(outcome) == outcome = "ok"

StrategyOutcomes(name) ==
    IF name = "mouse" THEN {"ok", "no_box", "raise"} ELSE {"ok", "raise"}

\* What the page does to the button scan of lines 340-343 and to each
\* strategy.
BrandClickInputs ==
    { [scan |-> scan, outcome |-> o] :
        scan \in {"button", "no_button", "raise"},
        o \in { f \in [1..Len(Strategies) -> {"ok", "no_box", "raise"}] :
                  \A i \in 1..Len(Strategies) :
                      f[i] \in StrategyOutcomes(Strategies[i]) } }

Attempt(name, outcome) == [name |-> name, outcome |-> outcome]

\* oauth_automater.py:339-343 and 422-424: the scan for a button carrying
\* data-destination-info; an exception in it is caught by the outer try.
BC_Scan ==
    /\ fpc.at = "scan"
    /\ IF args.scan = "button"
       THEN fpc' = At("strategy", 1, 1) /\ UNCHANGED ret
       ELSE fpc' = At("done", 0, 0) /\ ret' = "False"
    /\ UNCHANGED <<args, trace>>
    /\ UNCHANGED <<pageVars, drvVars, fileVars, flowVars, svcVars>>

\* oauth_automater.py:355-421: one strategy; after the last one, break and
\* return False.
BC_Strategy ==
    /\ fpc.at = "strategy"
    /\ LET outcome == args.outcome[fpc.s] IN
        /\ trace' = Append(trace, Attempt(Strategies[fpc.s], outcome))
        /\ IF StrategySucceeded(outcome)
           THEN fpc' = At("done", 0, 0) /\ ret' = "True"
           ELSE IF fpc.s < Len(Strategies)
           THEN fpc' = At("strategy", fpc.s + 1, 1) /\ UNCHANGED ret
           ELSE fpc' = At("done", 0, 0) /\ ret' = "False"
    /\ UNCHANGED args
    /\ UNCHANGED <<pageVars, drvVars, fileVars, flowVars, svcVars>>

InitBrandClick ==
    /\ args \in BrandClickInputs
    /\ flaky = FALSE
    /\ fpc = At("scan", 1, 1)
    /\ trace = <<>>
    /\ ret = "none"
    /\ OthersIdle

NextBrandClick ==
    \/ BC_Scan
    \/ BC_Strategy

SpecBrandClick == InitBrandClick /\ [][NextBrandClick]_vars

\* ============ _check_redirect (lines 293-318) with
\* ============ _capture_url_from_address_bar (lines 550-633)
ChromeScheme == <<"c", "h", ":", "/", "/">>
ChromeErrorScheme == <<"c", "h", "-", "e", ":", "/", "/">>
ChromeUrl == ChromeScheme \o <<"n">>
ChromeErrorUrl == ChromeErrorScheme \o <<"c", "o", "d", "e", "=", "7">>

StartsWith(url, prefix) == IsPrefixAt(prefix, url, 1)

\* A URL accepted as soon as there is one.
AcceptedWheneverPresent(url) == url # NoUrl

\* oauth_automater.py:298 and :316  url and "code=" in url
AcceptedAsRedirect(url) == url # NoUrl /\ Contains(url, CodeEq)

\* oauth_automater.py:578: a URL of the first page that is not empty and
\* not one of the browser's own pages.
UsefulCdpUrl(url) ==
    /\ url # NoUrl
    /\ ~StartsWith(url, ChromeScheme)
    /\ ~StartsWith(url, ChromeErrorScheme)

\* What the three sources answer. page.url: a URL or an exception. The
\* remote-debugging endpoint: an exception, no page, or the URL of the
\* first page. The clipboard capture: an exception of one of the docker
\* commands, a failed xclip, or xclip's stripped output.
Answer(kind, url) == [kind |-> kind, url |-> url]
PageUrlAnswers ==
    { Answer("raise", NoUrl) } \cup
    { Answer("url", u) : u \in {NoUrl, AuthPageUrl, RedirectA} }
CdpAnswers ==
    { Answer("raise", NoUrl), Answer("no_pages", NoUrl) } \cup
    { Answer("url", u) :
        u \in {NoUrl, ChromeUrl, ChromeErrorUrl, AuthPageUrl, RedirectB} }
ClipboardAnswers ==
    { Answer("raise", NoUrl), Answer("xclip_failed", RedirectA) } \cup
    { Answer("url", u) : u \in {NoUrl, AuthPageUrl, RedirectA} }

\* oauth_automater.py:312-314 with 293-302
RC_PlaywrightUrl ==
    /\ fpc.at = "page.url"
    /\ trace' = Append(trace, "page.url")
    /\ IF args.page.kind = "url" /\ AcceptedAsRedirect(args.page.url)
       THEN fpc' = At("done", 0, 0) /\ ret' = args.page.url
       ELSE fpc' = At("cdp", 1, 1) /\ UNCHANGED ret
    /\ UNCHANGED args
    /\ UNCHANGED <<pageVars, drvVars, fileVars, flowVars, svcVars>>

\* oauth_automater.py:569-584, then 316-318 when a URL is returned
RC_Cdp ==
    /\ fpc.at = "cdp"
    /\ trace' = Append(trace, "cdp")
    /\ IF args.cdp.kind = "url" /\ UsefulCdpUrl(args.cdp.url)
       THEN /\ fpc' = At("done", 0, 0)
            /\ ret' = IF AcceptedAsRedirect(args.cdp.url)
                      THEN args.cdp.url ELSE NoUrl
       ELSE fpc' = At("clipboard", 1, 1) /\ UNCHANGED ret
    /\ UNCHANGED args
    /\ UNCHANGED <<pageVars, drvVars, fileVars, flowVars, svcVars>>

\* oauth_automater.py:586-633, then 316-318
RC_Clipboard ==
    /\ fpc.at = "clipboard"
    /\ trace' = Append(trace, "clipboard")
    /\ fpc' = At("done", 0, 0)
    /\ ret' = IF args.clip.kind = "url" /\ AcceptedAsRedirect(args.clip.url)
              THEN args.clip.url ELSE NoUrl
    /\ UNCHANGED args
    /\ UNCHANGED <<pageVars, drvVars, fileVars, flowVars, svcVars>>

InitRedirect ==
    /\ \E page \in PageUrlAnswers, cdp \in CdpAnswers, clip \in ClipboardAnswers :
        args = [page |-> page, cdp |-> cdp, clip |-> clip]
    /\ flaky = FALSE
    /\ fpc = At("page.url", 1, 1)
    /\ trace = <<>>
    /\ ret = "none"
    /\ OthersIdle

NextRedirect ==
    \/ RC_PlaywrightUrl
    \/ RC_Cdp
    \/ RC_Clipboard

SpecRedirect == InitRedirect /\ [][NextRedirect]_vars

\* ======================================================= driver claims
LastScreen == script[Len(script)]

\* The page is k generic Continue screens followed by a redirect whose URL
\* holds "code=", and no probe fails on it.
ContinueThenRedirect(k) ==
    /\ ~flaky
    /\ Len(script) = k + 1
    /\ \A i \in 1..k : script[i] = ContinueScreen
    /\ LastScreen.kind = "Redirect"
    /\ Contains(LastScreen.url, CodeEq)

ArtifactFile == codeFile[authorization_code_path]

\* C1: on a page that shows k Continue screens (k from 0 to 14) and then a
\* redirect holding "code=", the handler, once entered, terminates having
\* written exactly that redirect URL to the artifact file.
C1_ContinueScreensThenCapture ==
    ((\E k \in 0..(HandlerMaxAttempts - 1) : ContinueThenRedirect(k))
        /\ dpc = "h_brand0")
        ~> (/\ dpc = "done"
            /\ hres = "True"
            /\ writes = 1
            /\ ArtifactFile = LastScreen.url)

\* 14 Continue screens were clicked through and the redirect was captured.
C1_Witness ==
    /\ ContinueThenRedirect(HandlerMaxAttempts - 1)
    /\ dpc = "done"
    /\ pos = HandlerMaxAttempts
    /\ round = HandlerMaxAttempts - 1
    /\ writes = 1
    /\ ArtifactFile = LastScreen.url

\* C2 as claimed: authorize_oauth returns True only when a redirect URL was
\* captured and written during that call; a page that never redirects is
\* reported as a failure.
C2_TrueOnlyAfterCapture ==
    (dpc = "done" /\ dres = "True") => (writes >= 1 /\ hres = "True")

\* The probes and clicks C3 names.
ProbeCalls == {"query_selector", "query_selector_all", "wait_for_selector",
               "inner_text", "click"}

\* C3 as claimed: an exception raised by a single DOM probe or click never
\* ends authorize_oauth and never reaches its caller.
C3_ProbeFailureNeverSurfaces ==
    ~(dpc = "done" /\ dres = "ValueError" /\ excFrom \in ProbeCalls)

\* C4: the driver writes the artifact file at most once per run, the write
\* is its last page or file operation, it happens only in a run whose
\* handler returns True, and a run that fails has written nothing.
C4_WriteOnceAtEnd ==
    /\ writes <= 1
    /\ ~lateOps
    /\ writes = 1 => (dpc \in {"ao_return", "done"} /\ hres = "True")
    /\ (hres = "False" \/ dres \in {"ValueError", "ImportError"}) => writes = 0

\* A run that clicked through screens and ended with its single write.
C4_Witness ==
    /\ dpc = "done"
    /\ dres = "True"
    /\ writes = 1
    /\ pos > 1
    /\ round > 0
    /\ ArtifactFile = LastScreen.url

\* ========================================================= flow claims
UrlLineEmitted == \E i \in 1..Len(stdout) : Contains(stdout[i], UrlMarker)

LogIdx == 1..Len(log)
UsesToken(op) ==
    op \in {"load", "load_failed", "refresh_ok", "refresh_failed", "build"}
Mismatch(e) == e.cur # 0 /\ e.cred.exists /\ e.cred.cid # e.cur

RefreshFailedAt(i) == log[i].op = "refresh_failed"

\* C8: a failed refresh is not raised to the caller: the credential is
\* dropped, and the call either starts the authorization flow without a
\* credential or, with skip_auth_flow, returns None.
C8_RefreshFailureFallsThrough ==
    \A i \in LogIdx : RefreshFailedAt(i) =>
        /\ i = Len(log) /\ gpc = "auth" => creds = NoTok
        /\ ~(i = Len(log) /\ gpc = "auth") =>
              \/ /\ i < Len(log)
                 /\ log[i + 1].op = "auth_flow"
                 /\ ~log[i + 1].cred.exists
                 /\ ~skip_auth_flow
              \/ /\ i = Len(log)
                 /\ skip_auth_flow
                 /\ gpc = "idle"
                 /\ result = ReturnedNone

\* A refresh failed and the authorization flow that followed produced the
\* credential the service was built with.
C8_Witness ==
    /\ result.kind = "service"
    /\ \E i \in LogIdx : RefreshFailedAt(i)
    /\ \E i \in LogIdx : log[i].op = "auth_flow"

\* C9: the authorization flow is started only when, after the load and
\* the refresh, there is neither a valid credential nor one with a
\* refresh token; never after a valid load or a successful refresh.
C9_AuthFlowOnlyWithoutCredential ==
    \A i \in LogIdx : log[i].op = "auth_flow" =>
        /\ ~Valid(log[i].cred)
        /\ ~(log[i].cred.exists /\ log[i].cred.refresh)
        /\ ~skip_auth_flow
        /\ \A j \in 1..(i - 1) :
            /\ log[j].op # "refresh_ok"
            /\ log[j].op = "load" => ~Valid(log[j].cred)

\* An expired token without a refresh token was loaded and the flow ran.
C9_Witness ==
    /\ result.kind = "service"
    /\ \E i \in LogIdx :
        /\ log[i].op = "auth_flow"
        /\ log[i].cred.exists
        /\ log[i].cred.expired

IsCall == calls' = calls + 1

\* C10: once a handle is cached under a key it stays there; a later call
\* with that key returns it at once with no download, deletion, refresh,
\* authorization flow or upload, and a step changes at most the entry of
\* the key of the call being served.
C10_CachedHandleReturnedUntouched ==
    [][ /\ \A k \in CacheKeys :
            /\ services[k] # 0 => services'[k] = services[k]
            /\ services'[k] # services[k] => k = cache_key /\ ~IsCall
        /\ \A k \in CacheKeys :
            IsCall /\ cache_key' = k /\ services[k] # 0 =>
                /\ result' = Returned(services[k])
                /\ gpc' = "idle"
                /\ log' = <<>>
                /\ UNCHANGED <<services, handles, remoteToken, remoteClient,
                               localToken, localClient, candidates>>
      ]_vars

\* Both keys hold different handles and the call just served was answered
\* from the cache.
C10_Witness ==
    /\ calls >= 3
    /\ gpc = "idle"
    /\ log = <<>>
    /\ services["a"] # 0 /\ services["b"] # 0
    /\ services["a"] # services["b"]
    /\ cache_key # ""
    /\ result = Returned(services[cache_key])

\* ================================================== account chooser claims
Done == fpc.at = "done"
ClickedAt == { i \in 1..Len(trace) : trace[i].clicked }
Rank(level) ==
    CASE level = "a" -> 1 [] level = "b" -> 2 [] level = "c" -> 3 [] OTHER -> 4

IsListItem(el) == el.list # "none"
ListItems == { i \in 1..Len(args.items) : IsListItem(args.items[i]) }
IdentMatch == { i \in 1..Len(args.items) : args.items[i].ident = args.email }
MailMatch == { i \in 1..Len(args.items) : args.items[i].mail = args.email }
TextMatch == { i \in ListItems : TextMatches(args.items[i].text, args.email) }

\* Whether the element at position el is what the level of preference
\* looks for.
Meets(level, el) ==
    CASE level = "a" -> el \in IdentMatch
      [] level = "b" -> el \in MailMatch
      [] level = "c" -> el \in TextMatch
      [] OTHER -> el \in ListItems

\* The level a page is served at when no probe and no click fails.
BestLevel ==
    IF IdentMatch # {} THEN "a"
    ELSE IF MailMatch # {} THEN "b"
    ELSE IF TextMatch # {} THEN "c"
    ELSE IF ListItems # {} THEN "d"
    ELSE "none"

\* The first item of a ul if there is one, else the first list item.
FirstListItem ==
    LET inUl == QueryAllLi(args.items, "ul li")
        any == QueryAllLi(args.items, "li")
    IN  IF inUl # <<>> THEN inUl[1] ELSE IF any # <<>> THEN any[1] ELSE 0

\* What holds of the order of preference on every page.
OrderOfPreference ==
    /\ ret \in {"True", "False"}
    /\ ret = "True" <=> ClickedAt # {}
    /\ Cardinality(ClickedAt) <= 1
    /\ \A i \in ClickedAt : i = Len(trace)
    /\ \A i \in 1..Len(trace) : Meets(trace[i].level, trace[i].el)
    /\ \A i \in 1..Len(trace), j \in 1..Len(trace) :
          i < j => Rank(trace[i].level) <= Rank(trace[j].level)
    /\ ~flaky =>
          IF BestLevel = "none"
          THEN ret = "False" /\ trace = <<>>
          ELSE /\ ret = "True"
               /\ Len(trace) = 1
               /\ trace[1].level = BestLevel
               /\ BestLevel = "d" => trace[1].el = FirstListItem

\* C11 as stated: the order of preference, and False with no click on
\* every page without a list item.
C11_FalseWheneverNoListItem ==
    Done /\ ~flaky =>
        /\ OrderOfPreference
        /\ ListItems = {} => ret = "False" /\ trace = <<>>

\* C11: the entry is chosen in the order data-identifier, data-email, list
\* item whose text contains the email, first list item; a lower level is
\* tried only after every higher one found nothing or failed, at most one
\* click goes through and it ends the call with True; False is returned
\* with no click when no element carries the email in either attribute
\* and there is no list item.
C11_OrderOfPreference == Done => OrderOfPreference

\* An element outside every list carries the email as data-identifier:
\* it is clicked and True is returned though the page has no list item.
C11_Witness ==
    /\ Done
    /\ ~flaky
    /\ Len(args.items) = 2
    /\ ListItems = {}
    /\ ret = "True"
    /\ trace = <<Click("a", 1, TRUE)>>

\* Case-insensitive containment, spelled out for the three letters that
\* have an upper case in the chooser's strings.
SameLetter(c, d) ==
    \/ c = d
    \/ {c, d} \in {{"a", "A"}, {"b", "B"}, {"x", "X"}}
ContainsIgnoringCase(text, email) ==
    \E i \in 1..(Len(text) - Len(email) + 1) :
        \A j \in 1..Len(email) : SameLetter(text[i + j - 1], email[j])
NoAttributeMatch == IdentMatch = {} /\ MailMatch = {}

\* C12: when no element carries the email in data-identifier or
\* data-email and some list item's text contains it case-insensitively
\* (probes not failing), the one entry clicked is such a list item, not
\* merely the first one: for a@x, b@x and the target B@X it is the second.
C12_TextMatchIgnoresCase ==
    /\ Done /\ ~flaky /\ NoAttributeMatch
          /\ (\E i \in ListItems :
                ContainsIgnoringCase(args.items[i].text, args.email))
          => /\ ret = "True"
             /\ Len(trace) = 1
             /\ trace[1].clicked
             /\ trace[1].el \in ListItems
             /\ ContainsIgnoringCase(args.items[trace[1].el].text, args.email)
    /\ Done /\ ~flaky
          /\ args.email = MailBUpper
          /\ args.items = << Element("ul", MailA, MailA, MailA),
                             Element("ul", MailB, MailB, MailB) >>
          => trace = <<Click("c", 2, TRUE)>>

\* Accounts a@x and b@x, target B@X: the second entry has been clicked.
C12_Witness ==
    /\ Done
    /\ ~flaky
    /\ args.email = MailBUpper
    /\ args.items = << Element("ul", MailA, MailA, MailA),
                       Element("ul", MailB, MailB, MailB) >>
    /\ ret = "True"
    /\ trace = <<Click("c", 2, TRUE)>>

\* ================================================ brand-button click claim
FixedOrder ==
    << "mouse", "js_click", "dispatch_event", "force_click", "focus_enter",
       "parent_click" >>
WentThrough(a) == a.outcome = "ok"

\* C13: the strategies are attempted in the order mouse click, JS click,
\* dispatched click event, forced click, focus plus Enter, parent click;
\* one is attempted only after all earlier ones failed, none after one
\* went through, and the result is True iff one went through.
C13_StrategiesInOrderUntilSuccess ==
    /\ Len(trace) <= Len(FixedOrder)
    /\ \A i \in 1..Len(trace) :
        /\ trace[i].name = FixedOrder[i]
        /\ trace[i].outcome = args.outcome[i]
        /\ i < Len(trace) => ~WentThrough(trace[i])
    /\ Done =>
        /\ ret = "True" <=> \E i \in 1..Len(trace) : WentThrough(trace[i])
        /\ ret = "True" => WentThrough(trace[Len(trace)])
        /\ ret = "False" /\ args.scan = "button" => Len(trace) = Len(FixedOrder)
        /\ args.scan # "button" => ret = "False" /\ trace = <<>>

\* The first four strategies failed, focus plus Enter went through and
\* the parent click was not attempted.
C13_Witness ==
    /\ Done
    /\ ret = "True"
    /\ Len(trace) = 5
    /\ trace[1].outcome = "no_box"
    /\ trace[5] = Attempt("focus_enter", "ok")
    /\ args.outcome[6] = "ok"

\* =================================================== redirect check claim
HasCodeParam(url) == Contains(url, <<"c", "o", "d", "e", "=">>)
PageUrlRead == args.page.kind = "url"
Consulted(source) == \E i \in 1..Len(trace) : trace[i] = source

\* C14: a redirect check reads the browser's own URL first; the
\* remote-debugging endpoint is consulted only when that URL could not be
\* read or has no code=, the clipboard only after the endpoint and only
\* when the endpoint gave no usable URL; what the check returns is a URL
\* of the source consulted last and contains code=, or nothing.
C14_BrowserUrlFirstThenOutOfBand ==
    /\ trace \in { <<>>, <<"page.url">>, <<"page.url", "cdp">>,
                   <<"page.url", "cdp", "clipboard">> }
    /\ Consulted("cdp") => ~(PageUrlRead /\ HasCodeParam(args.page.url))
    /\ Consulted("clipboard") =>
          ~(args.cdp.kind = "url" /\ UsefulCdpUrl(args.cdp.url))
    /\ Done =>
        /\ PageUrlRead /\ HasCodeParam(args.page.url)
              => trace = <<"page.url">> /\ ret = args.page.url
        /\ ret # NoUrl =>
              /\ HasCodeParam(ret)
              /\ ret = CASE Len(trace) = 1 -> args.page.url
                         [] Len(trace) = 2 -> args.cdp.url
                         [] OTHER -> args.clip.url
        /\ Len(trace) = 3 /\ args.clip.kind = "url" /\ HasCodeParam(args.clip.url)
              => ret = args.clip.url

\* page.url raised, the endpoint listed no page and the clipboard held
\* the redirect, which was returned.
C14_Witness ==
    /\ Done
    /\ args.page.kind = "raise"
    /\ args.cdp.kind = "no_pages"
    /\ trace = <<"page.url", "cdp", "clipboard">>
    /\ ret = RedirectA

\* ================================== the two waits after the password
\* The page goes from one heading to another while the driver waits: the
\* sign-in is approved on another device, or the page is slow.
PageMoves ==
    /\ dpc \in {"ao_2fa", "ao_acct"}
    /\ \E h \in Headings \ {heading} : heading' = h
    /\ UNCHANGED <<script, flaky, pos, checked>>
    /\ UNCHANGED <<drvVars, fileVars, flowVars, svcVars, callVars>>

\* oauth_automater.py:178-181: the password was submitted and _wait_for_2fa
\* begins, the page showing one of the headings.
InitLogin ==
    /\ script = <<IdleScreen>>
    /\ flaky \in BOOLEAN
    /\ heading \in Headings
    /\ auth_url = WorkerAuthUrl
    /\ self_email = TRUE
    /\ self_password = TRUE
    /\ pos = 1
    /\ checked = FALSE
    /\ dpc = "ao_2fa"
    /\ polls = 0
    /\ round = 0
    /\ form_checkboxes = FALSE
    /\ hres = "none"
    /\ dres = "none"
    /\ excFrom = "none"
    /\ writes = 0
    /\ lateOps = FALSE
    /\ authorization_code_path = DefaultCodePath
    /\ codeFile = [p \in CodePaths |-> NoFile]
    /\ FlowIdle
    /\ ServiceIdle
    /\ CallIdle

NextLogin ==
    \/ AO_Wait2FA
    \/ AO_WaitAccountSelection
    \/ PageMoves

SpecLogin == InitLogin /\ [][NextLogin]_vars

\* The driver is one sequential thread: a wait that can poll does poll.
FairSpecLogin ==
    SpecLogin /\ WF_vars(AO_Wait2FA) /\ WF_vars(AO_WaitAccountSelection)

\* ================== the consent page: checkboxes, then Continue (513-541)
\* Largest number of checkboxes in the form.
MaxBoxes == 3

\* The boxes as the page shows them: checked or not.
Forms == UNION { [1..n -> BOOLEAN] : n \in 0..MaxBoxes }

Did(box, what) == [box |-> box, what |-> what]

\* The state of box i after the events so far: a click that went through
\* toggles it.
RECURSIVE BoxState(_, _, _)
BoxState(form, events, i) ==
    IF events = <<>> THEN form[i]
    ELSE LET before == BoxState(form, SubSeq(events, 1, Len(events) - 1), i)
             last == events[Len(events)]
         IN  IF last.box = i /\ last.what = "click" THEN ~before ELSE before

\* A driver that clicks every checkbox it finds.
NeedsClickAlways(isChecked) == TRUE

\* oauth_automater.py:519  if not cb.is_checked()
NeedsClick(isChecked) == ~isChecked

\* oauth_automater.py:517-524: one checkbox of the form; is_checked and
\* click are inside one try.
CB_Box ==
    /\ fpc.at = "boxes"
    /\ fpc.s <= Len(args)
    /\ \E probeExc \in Raises, clickExc \in Raises :
        trace' =
            IF probeExc THEN Append(trace, Did(fpc.s, "is_checked_raised"))
            ELSE IF ~NeedsClick(BoxState(args, trace, fpc.s)) THEN trace
            ELSE IF clickExc THEN Append(trace, Did(fpc.s, "click_raised"))
            ELSE Append(trace, Did(fpc.s, "click"))
    /\ fpc' = At("boxes", fpc.s + 1, 0)
    /\ UNCHANGED <<pageVars, drvVars, fileVars, flowVars, svcVars, args, ret>>

\* oauth_automater.py:527-539: the Continue button is clicked.
CB_Continue ==
    /\ fpc.at = "boxes"
    /\ fpc.s > Len(args)
    /\ trace' = Append(trace, Did(0, "continue"))
    /\ fpc' = At("done", 0, 0)
    /\ ret' = <<>>
    /\ UNCHANGED <<pageVars, drvVars, fileVars, flowVars, svcVars, args>>

\* oauth_automater.py:514: the form's checkboxes were queried.
InitConsent ==
    /\ OthersIdle
    /\ flaky \in BOOLEAN
    /\ args \in Forms
    /\ fpc = At("boxes", 1, 0)
    /\ trace = <<>>
    /\ ret = "none"

NextConsent ==
    \/ CB_Box
    \/ CB_Continue

SpecConsent == InitConsent /\ [][NextConsent]_vars

\* ================= authorize_oauth up to the open browser (lines 113-142)
\* What the call is made with: whether browser_manager could be imported
\* (lines 14-19), whether the profile has a cookie store and whether
\* os.remove of it fails, whether BrowserManager opens, and the two
\* configuration fields use_neko is computed from.
Preludes ==
    [ has_browser_manager : BOOLEAN, cookies : BOOLEAN, remove_fails : BOOLEAN,
      opens : BOOLEAN, is_docker : BOOLEAN, has_display : BOOLEAN ]

Exception(from) == <<"raised", from>>

\* A driver that goes on without the dependency.
AvailableAlways(has_browser_manager) == TRUE

\* oauth_automater.py:113  if not HAS_BROWSER_MANAGER
Available(has_browser_manager) == has_browser_manager

\* oauth_automater.py:113-117
AP_Check ==
    /\ fpc.at = "check"
    /\ IF Available(args.has_browser_manager)
       THEN /\ fpc' = At("cookies", 0, 0)
            /\ UNCHANGED ret
       ELSE /\ fpc' = At("done", 0, 0)
            /\ ret' = Exception("ImportError")
    /\ UNCHANGED <<pageVars, drvVars, fileVars, flowVars, svcVars, args, trace>>

\* oauth_automater.py:123-130: the cookie store is removed when there is
\* one; a failing os.remove is caught.
AP_Cookies ==
    /\ fpc.at = "cookies"
    /\ trace' = IF args.cookies /\ ~args.remove_fails
                THEN Append(trace, <<"remove", "Cookies">>)
                ELSE trace
    /\ fpc' = At("browser", 0, 0)
    /\ UNCHANGED <<pageVars, drvVars, fileVars, flowVars, svcVars, args, ret>>

\* oauth_automater.py:132-142: the browser session is opened; an exception
\* leaves as ValueError (line 193).
AP_Browser ==
    /\ fpc.at = "browser"
    /\ IF args.has_browser_manager /\ args.opens
       THEN /\ trace' = Append(trace, <<"open",
                    IF ~args.is_docker /\ args.has_display THEN "neko" ELSE "plain">>)
            /\ ret' = <<"page">>
       ELSE /\ ret' = Exception("ValueError")
            /\ UNCHANGED trace
    /\ fpc' = At("done", 1, 0)
    /\ UNCHANGED <<pageVars, drvVars, fileVars, flowVars, svcVars, args>>

InitPrelude ==
    /\ OthersIdle
    /\ flaky = FALSE
    /\ args \in Preludes
    /\ fpc = At("check", 0, 0)
    /\ trace = <<>>
    /\ ret = "none"

NextPrelude ==
    \/ AP_Check
    \/ AP_Cookies
    \/ AP_Browser

SpecPrelude == InitPrelude /\ [][NextPrelude]_vars

\* ======= the worker's wait and the driver's waits on one clock, in seconds
\* auth_worker.py:90 and :93  time.sleep(10)
WorkerSleep == 10
\* oauth_automater.py:262 and :264, :277 and :279  time.sleep(5)
PollSleep == 5

\* trace holds the worker's count, its state and its clock, the driver's
\* clock and whether the artifact file is there; fpc holds the driver's
\* position and the polls of its current wait.
Clocks(count, worker, wclock, dclock, file) ==
    [count |-> count, worker |-> worker, wclock |-> wclock, dclock |-> dclock,
     file |-> file]

WorkerWaiting == trace.worker = "polling"
DriverRunning == fpc.at # "done"
\* Sleeps are the only time that passes: a process takes its next step
\* when the other one is not behind it.
WorkerIsDue == ~DriverRunning \/ trace.wclock <= trace.dclock
DriverIsDue == ~WorkerWaiting \/ trace.dclock <= trace.wclock

\* auth_worker.py:82-99: one round of the wait, or its end.
TW_Poll ==
    /\ WorkerWaiting
    /\ WorkerIsDue
    /\ trace' =
         IF trace.count < WorkerMaxAttempts
         THEN [trace EXCEPT !.count = @ + 1,
                            !.wclock = @ + WorkerSleep,
                            !.worker = IF trace.file THEN "got_code" ELSE @]
         ELSE [trace EXCEPT !.worker = "gave_up"]
    /\ UNCHANGED <<pageVars, drvVars, fileVars, flowVars, svcVars, args, fpc, ret>>

\* One poll of a wait of the driver: the heading is seen or not, and five
\* seconds pass either way.
TimedPoll(here, after) ==
    /\ fpc.at = here
    /\ DriverIsDue
    /\ trace' = [trace EXCEPT !.dclock = @ + PollSleep]
    /\ \E seen \in BOOLEAN :
        fpc' = IF seen \/ NextPoll(fpc.s) = WaitMaxAttempts
               THEN At(after, 0, 0) ELSE At(here, NextPoll(fpc.s), 0)
    /\ UNCHANGED <<pageVars, drvVars, fileVars, flowVars, svcVars, args, ret>>

\* oauth_automater.py:252-264
TD_Wait2FA == TimedPoll("2fa", "acct")

\* oauth_automater.py:266-279
TD_WaitAccountSelection == TimedPoll("acct", "handler")

\* oauth_automater.py:304-308, reached from the handler (lines 468-548):
\* the redirect is captured and written, or the handler ends without it.
TD_Handler ==
    /\ fpc.at = "handler"
    /\ DriverIsDue
    /\ \E captured \in BOOLEAN :
        trace' = [trace EXCEPT !.file = captured]
    /\ fpc' = At("done", 0, 0)
    /\ UNCHANGED <<pageVars, drvVars, fileVars, flowVars, svcVars, args, ret>>

\* uploader.py:356-367: the worker has printed the URL and starts to wait,
\* the driver starts; it finds the chooser heading and goes to the handler
\* at once, or signs in and waits (oauth_automater.py:149, 181).
InitTiming ==
    /\ OthersIdle
    /\ flaky = FALSE
    /\ args = <<>>
    /\ fpc \in {At("2fa", 0, 0), At("handler", 0, 0)}
    /\ trace = Clocks(0, "polling", 0, 0, FALSE)
    /\ ret = "none"

NextTiming ==
    \/ TW_Poll
    \/ TD_Wait2FA
    \/ TD_WaitAccountSelection
    \/ TD_Handler

SpecTiming == InitTiming /\ [][NextTiming]_vars

\* ============ the candidate client-secret files (uploader.py:186-242)
\* The places get_service looks at: the working directory, project_path,
\* local_client_secret_path and /app.
Locations == {"client_path", "project_client_path", "local_client_secret_path",
              "app_client_path"}

\* Whether the two optional paths are configured, the client_id of the
\* file at each place (0: no file, or none readable) and that of the
\* stored client secret.
CandidateCalls ==
    [ project_path : BOOLEAN,
      local_client_secret_path : BOOLEAN,
      files : [Locations -> {0, 1, 2}],
      stored_id : {0, 3} ]

\* uploader.py:186-206. The path under encrypt_path is the same string as
\* local_client_path (token_manager.py:103) and is never appended.
PossibleLocalPaths(config) ==
    <<"client_path">>
    \o (IF config.project_path THEN <<"project_client_path">> ELSE <<>>)
    \o (IF config.local_client_secret_path
        THEN <<"local_client_secret_path">> ELSE <<>>)
    \o <<"app_client_path">>

\* uploader.py:186-206
LC_Paths ==
    /\ fpc.at = "paths"
    /\ trace' = PossibleLocalPaths(args)
    /\ fpc' = At("loop", 0, 0)
    /\ UNCHANGED <<pageVars, drvVars, fileVars, flowVars, svcVars, args, ret>>

\* uploader.py:209-240: the path whose file is copied over the stored
\* client secret, "none" if the loop ends without a copy.
LC_Loop ==
    /\ fpc.at = "loop"
    /\ LET ids == [i \in 1..Len(trace) |-> args.files[trace[i]]]
           i == FirstApplicable(ids, args.stored_id)
       IN  ret' = IF i = 0 THEN "none" ELSE trace[i]
    /\ fpc' = At("done", 0, 0)
    /\ UNCHANGED <<pageVars, drvVars, fileVars, flowVars, svcVars, args, trace>>

InitCandidates ==
    /\ OthersIdle
    /\ flaky = FALSE
    /\ args \in CandidateCalls
    /\ fpc = At("paths", 0, 0)
    /\ trace = <<>>
    /\ ret = "none"

NextCandidates ==
    \/ LC_Paths
    \/ LC_Loop

SpecCandidates == InitCandidates /\ [][NextCandidates]_vars

\* ================= the sign-in path of authorize_oauth (lines 142-191)
\* One call on the page or on the driver itself, with its selector.
Op(op, sel) == [op |-> op, sel |-> sel]

\* An order that asks for the password first.
LoginSelectorsPasswordFirst ==
    << "input[type=password]", "#passwordNext", "#passwordNext",
       "#identifierId", "#identifierId", "#identifierNext", "#identifierNext" >>

\* oauth_automater.py:154-176: the selector of each of LoginSteps; the
\* first fill follows the probe for the same selector.
LoginSelectors ==
    << "#identifierId", "#identifierNext", "#identifierNext",
       "input[type=password]", "input[type=password]", "#passwordNext",
       "#passwordNext" >>

\* What #headingText holds when the page opens ("": no such element) .
InitialHeadings == Headings \cup {""}

SI_Raise(from) ==
    /\ ret' = Exception(from)
    /\ fpc' = At("done", 0, 0)

\* oauth_automater.py:145-149
SI_Heading ==
    /\ fpc.at = "heading"
    /\ trace' = Append(trace, Op("query_selector", "#headingText"))
    /\ \E exc \in Raises :
        IF exc THEN SI_Raise("query_selector")
        ELSE /\ fpc' = IF args.heading_text # ChooserHeading
                       THEN At("creds", 0, 0) ELSE At("handler", 0, 0)
             /\ UNCHANGED ret
    /\ UNCHANGED <<pageVars, drvVars, fileVars, flowVars, svcVars, args>>

\* oauth_automater.py:150: get_credentials returns a pair or raises.
SI_GetCredentials ==
    /\ fpc.at = "creds"
    /\ trace' = Append(trace, Op("get_credentials", ""))
    /\ \E returned \in BOOLEAN :
        IF returned THEN fpc' = At("probe", 0, 0) /\ UNCHANGED ret
        ELSE SI_Raise("get_credentials")
    /\ UNCHANGED <<pageVars, drvVars, fileVars, flowVars, svcVars, args>>

\* oauth_automater.py:154-161: a timeout of the probe is swallowed.
SI_ProbeEmail ==
    /\ fpc.at = "probe"
    /\ trace' = Append(trace, Op("wait_for_selector", "#identifierId"))
    /\ \E email_input_found \in BOOLEAN :
        fpc' = IF email_input_found THEN At("login", 0, 1) ELSE At("chooser", 0, 0)
    /\ UNCHANGED <<pageVars, drvVars, fileVars, flowVars, svcVars, args, ret>>

\* oauth_automater.py:163-178: step fpc.k of the fresh login.
SI_LoginStep ==
    /\ fpc.at = "login"
    /\ trace' = Append(trace, Op(LoginSteps[fpc.k], LoginSelectors[fpc.k]))
    /\ \E exc \in Raises :
        IF exc THEN SI_Raise(LoginSteps[fpc.k])
        ELSE /\ fpc' = IF fpc.k = Len(LoginSteps)
                       THEN At("2fa", 0, 0) ELSE At("login", 0, fpc.k + 1)
             /\ UNCHANGED ret
    /\ UNCHANGED <<pageVars, drvVars, fileVars, flowVars, svcVars, args>>

\* oauth_automater.py:181; the wait swallows what its polls raise.
SI_Wait2FA ==
    /\ fpc.at = "2fa"
    /\ trace' = Append(trace, Op("_wait_for_2fa", ""))
    /\ fpc' = At("acct", 0, 0)
    /\ UNCHANGED <<pageVars, drvVars, fileVars, flowVars, svcVars, args, ret>>

\* oauth_automater.py:184
SI_WaitAccountSelection ==
    /\ fpc.at = "acct"
    /\ trace' = Append(trace, Op("_wait_for_account_selection", ""))
    /\ fpc' = At("handler", 0, 0)
    /\ UNCHANGED <<pageVars, drvVars, fileVars, flowVars, svcVars, args, ret>>

\* oauth_automater.py:186-188
SI_ClickAccountFromChooser ==
    /\ fpc.at = "chooser"
    /\ trace' = Append(trace, Op("_click_account_from_chooser", ""))
    /\ \E exc \in Raises :
        IF exc THEN SI_Raise("_click_account_from_chooser")
        ELSE fpc' = At("handler", 0, 0) /\ UNCHANGED ret
    /\ UNCHANGED <<pageVars, drvVars, fileVars, flowVars, svcVars, args>>

\* oauth_automater.py:190-191
SI_Handler ==
    /\ fpc.at = "handler"
    /\ trace' = Append(trace, Op("_handle_account_selection_and_continue", ""))
    /\ \E exc \in Raises :
        IF exc THEN SI_Raise("_handle_account_selection_and_continue")
        ELSE /\ ret' = <<"returned", "True">>
             /\ fpc' = At("done", 0, 0)
    /\ UNCHANGED <<pageVars, drvVars, fileVars, flowVars, svcVars, args>>

InitSignIn ==
    /\ OthersIdle
    /\ flaky \in BOOLEAN
    /\ args \in [heading_text : InitialHeadings]
    /\ fpc = At("heading", 0, 0)
    /\ trace = <<>>
    /\ ret = "none"

NextSignIn ==
    \/ SI_Heading
    \/ SI_GetCredentials
    \/ SI_ProbeEmail
    \/ SI_LoginStep
    \/ SI_Wait2FA
    \/ SI_WaitAccountSelection
    \/ SI_ClickAccountFromChooser
    \/ SI_Handler

SpecSignIn == InitSignIn /\ [][NextSignIn]_vars

\* ============================= get_credentials (oauth_automater.py:56-98)
\* Strings are sequences of characters; None is a value of its own.
None == <<"None">>

\* What the constructor is given, what the configuration holds and what is
\* typed at each prompt, should it be shown.
CredentialCalls ==
    [ email : {None, <<>>, <<"m">>},
      password : {None, <<"p">>},
      google_email : {None, <<"c">>},
      google_password : {None, <<>>, <<"q">>},
      typed_email : {<<>>, <<" ">>, <<"t", " ">>},
      typed_password : {<<>>, <<" ">>, <<"w">>} ]

\* Truth value of an Optional[str].
Falsy(v) == v = None \/ v = <<>>

\* The configured value wherever there is one.
PyOrConfigFirst(a, b) == IF Falsy(b) THEN a ELSE b

\* oauth_automater.py:58-59  a or b
PyOr(a, b) == IF Falsy(a) THEN b ELSE a

Returned2(email, password) == <<"returned", email, password>>

\* oauth_automater.py:56-59: __init__; trace holds self.email,
\* self.password and then the locals email and password.
GC_Init ==
    /\ fpc.at = "init"
    /\ LET email == PyOr(args.email, args.google_email)
           password == PyOr(args.password, args.google_password)
       IN  trace' = <<email, password, email, password>>
    /\ fpc' = At("tier1", 0, 0)
    /\ UNCHANGED <<pageVars, drvVars, fileVars, flowVars, svcVars, args, ret>>

\* oauth_automater.py:76-83
GC_Tier1 ==
    /\ fpc.at = "tier1"
    /\ IF ~Falsy(trace[3]) /\ ~Falsy(trace[4])
       THEN /\ ret' = Returned2(trace[3], trace[4])
            /\ fpc' = At("done", 0, 0)
       ELSE /\ fpc' = At("prompt_email", 0, 0)
            /\ UNCHANGED ret
    /\ UNCHANGED <<pageVars, drvVars, fileVars, flowVars, svcVars, args, trace>>

\* oauth_automater.py:88-89; fpc.s counts the prompts for the email.
GC_PromptEmail ==
    /\ fpc.at = "prompt_email"
    /\ IF Falsy(trace[3])
       THEN /\ trace' = [trace EXCEPT ![3] = Strip(args.typed_email)]
            /\ fpc' = At("prompt_password", fpc.s + 1, fpc.k)
       ELSE /\ fpc' = At("prompt_password", fpc.s, fpc.k)
            /\ UNCHANGED trace
    /\ UNCHANGED <<pageVars, drvVars, fileVars, flowVars, svcVars, args, ret>>

\* oauth_automater.py:91-92; fpc.k counts the prompts for the password.
GC_PromptPassword ==
    /\ fpc.at = "prompt_password"
    /\ IF Falsy(trace[4])
       THEN /\ trace' = [trace EXCEPT ![4] = args.typed_password]
            /\ fpc' = At("check", fpc.s, fpc.k + 1)
       ELSE /\ fpc' = At("check", fpc.s, fpc.k)
            /\ UNCHANGED trace
    /\ UNCHANGED <<pageVars, drvVars, fileVars, flowVars, svcVars, args, ret>>

\* oauth_automater.py:94-98
GC_Check ==
    /\ fpc.at = "check"
    /\ ret' = IF Falsy(trace[3]) \/ Falsy(trace[4])
              THEN Exception("ValueError")
              ELSE Returned2(trace[3], trace[4])
    /\ fpc' = At("done", fpc.s, fpc.k)
    /\ UNCHANGED <<pageVars, drvVars, fileVars, flowVars, svcVars, args, trace>>

InitCredentials ==
    /\ OthersIdle
    /\ flaky = FALSE
    /\ args \in CredentialCalls
    /\ fpc = At("init", 0, 0)
    /\ trace = <<>>
    /\ ret = "none"

NextCredentials ==
    \/ GC_Init
    \/ GC_Tier1
    \/ GC_PromptEmail
    \/ GC_PromptPassword
    \/ GC_Check

SpecCredentials == InitCredentials /\ [][NextCredentials]_vars

\* ================================================ YouTubeConfig (config.py)
\* What the constructor is given for the three fields ("default": the
\* argument is left out) and what the environment holds.
ConfigCalls ==
    [ headless_mode : {"default", "True", "False"},
      is_docker : {"default", "True", "False"},
      has_display : {"default", "True", "False"},
      IS_DOCKER : {"unset", "true", "True", "false", "1"},
      DISPLAY : {"unset", "", ":0"} ]

\* config.py:43-45  os.getenv("IS_DOCKER", "False").lower() == "true"
EnvIsDocker(value) == value \in {"true", "True"}
\* config.py:46-48  bool(os.environ.get('DISPLAY'))
EnvHasDisplay(value) == value \notin {"unset", ""}

\* A constructor that leaves the field as it was given.
HeadlessModeKept(given, is_docker, has_display) ==
    IF given = "default" THEN "None" ELSE given

\* config.py:49 and 61-64: the field defaults to None and __post_init__
\* computes it when it is None.
HeadlessMode(given, is_docker, has_display) ==
    IF given = "default"
    THEN IF is_docker \/ ~has_display THEN "True" ELSE "False"
    ELSE given

\* config.py:35-60: the generated __init__ fills the fields, from the
\* arguments or the default factories.
CF_Fields ==
    /\ fpc.at = "fields"
    /\ trace' = << IF args.is_docker = "default" THEN EnvIsDocker(args.IS_DOCKER)
                   ELSE args.is_docker = "True",
                   IF args.has_display = "default" THEN EnvHasDisplay(args.DISPLAY)
                   ELSE args.has_display = "True" >>
    /\ fpc' = At("post_init", 0, 0)
    /\ UNCHANGED <<pageVars, drvVars, fileVars, flowVars, svcVars, args, ret>>

\* config.py:61-64  __post_init__
CF_PostInit ==
    /\ fpc.at = "post_init"
    /\ ret' = <<HeadlessMode(args.headless_mode, trace[1], trace[2])>>
    /\ fpc' = At("done", 0, 0)
    /\ UNCHANGED <<pageVars, drvVars, fileVars, flowVars, svcVars, args, trace>>

InitConfig ==
    /\ OthersIdle
    /\ flaky = FALSE
    /\ args \in ConfigCalls
    /\ fpc = At("fields", 0, 0)
    /\ trace = <<>>
    /\ ret = "none"

NextConfig ==
    \/ CF_Fields
    \/ CF_PostInit

SpecConfig == InitConfig /\ [][NextConfig]_vars

\* ============================================ TokenManager (token_manager.py)
\* Largest number of bytes in a file given to encrypt_and_upload.
MaxBytes == 2

\* Bytes: a letter, carriage return, line feed, and a byte that is not
\* valid UTF-8 on its own.
Bytes == {"a", "\r", "\n", "x80"}
ByteSeqs == UNION { [1..n -> Bytes] : n \in 0..MaxBytes }

Absent == [kind |-> "none", key |-> "none", data |-> <<>>]
Plain(data) == [kind |-> "plain", key |-> "none", data |-> data]
Cipher(key, data) == [kind |-> "cipher", key |-> key, data |-> data]

\* The key of this TokenManager, and another one.
OwnKey == "own"
OtherKey == "other"

\* open(path, 'r').read(): the bytes are decoded as UTF-8 (which raises on
\* an invalid byte) and every "\r\n" and "\r" is read as "\n".
ValidUtf8(bytes) == \A i \in 1..Len(bytes) : bytes[i] # "x80"

RECURSIVE UniversalNewlines(_)
UniversalNewlines(text) ==
    IF text = <<>> THEN <<>>
    ELSE IF Head(text) = "\r"
         THEN IF Len(text) > 1 /\ text[2] = "\n"
              THEN <<"\n">> \o UniversalNewlines(SubSeq(text, 3, Len(text)))
              ELSE <<"\n">> \o UniversalNewlines(Tail(text))
         ELSE <<Head(text)>> \o UniversalNewlines(Tail(text))

\* token_manager.py:76-77: f.read().encode(), encrypted
EncryptFile(bytes) == Cipher(OwnKey, UniversalNewlines(bytes))

\* token_manager.py:114-116: Fernet.decrypt raises on what was not
\* encrypted with this key.
Decrypts(file) == file.kind = "cipher" /\ file.key = OwnKey

\* A store that hands out a file for every name.
InStoreAlways(file) == TRUE

\* token_manager.py:106-112: hf_hub_download raises when the repository
\* has no file of that name.
InStore(file) == file.kind # "none"

Disk(local, remote) == [local |-> local, remote |-> remote]
LocalPath == <<"encrypt_path", "/", "file_name">>

\* token_manager.py:67-91 for one file: it is read as text, encrypted,
\* written to encrypt_path and the folder is uploaded.
TM_EncryptAndUpload ==
    /\ fpc.at = "encrypt_and_upload"
    /\ IF ~ValidUtf8(args.content)
       THEN /\ ret' = Exception("UnicodeDecodeError")
            /\ fpc' = At("done", 1, 0)
            /\ UNCHANGED trace
       ELSE \E uploaded \in BOOLEAN :
            IF uploaded
            THEN /\ trace' = Disk(EncryptFile(args.content), EncryptFile(args.content))
                 /\ fpc' = At("download_and_decrypt", 1, 0)
                 /\ UNCHANGED ret
            ELSE /\ trace' = Disk(EncryptFile(args.content), trace.remote)
                 /\ ret' = Exception("upload_folder")
                 /\ fpc' = At("done", 1, 0)
    /\ UNCHANGED <<pageVars, drvVars, fileVars, flowVars, svcVars, args>>

\* token_manager.py:93-127: the file is fetched into encrypt_path,
\* decrypted and written back as text; any exception on the way is caught
\* and the local path is returned.
TM_DownloadAndDecrypt ==
    /\ fpc.at = "download_and_decrypt"
    /\ \E fetched \in BOOLEAN :
        trace' =
            IF ~(InStore(trace.remote) /\ fetched) THEN trace
            ELSE IF Decrypts(trace.remote)
                 THEN Disk(Plain(trace.remote.data), trace.remote)
                 ELSE Disk(trace.remote, trace.remote)
    /\ ret' = LocalPath
    /\ fpc' = At("done", fpc.s, 1)
    /\ UNCHANGED <<pageVars, drvVars, fileVars, flowVars, svcVars, args>>

\* A file is about to be encrypted and uploaded to an empty store, or a
\* file name is about to be downloaded: the store has no such file, or one
\* encrypted with this key or with another, and the local path holds
\* nothing, a file, or what an earlier encrypt_and_upload left there.
InitStore ==
    /\ OthersIdle
    /\ flaky = FALSE
    /\ ret = "none"
    /\ \/ /\ fpc = At("encrypt_and_upload", 1, 0)
          /\ \E b \in ByteSeqs : args = [content |-> b, disk |-> Disk(Absent, Absent)]
       \/ /\ fpc = At("download_and_decrypt", 0, 0)
          /\ \E l \in {Absent, Plain(<<"a">>), Cipher(OwnKey, <<"a">>)},
                r \in {Absent, Cipher(OwnKey, <<"a", "\n">>), Cipher(OtherKey, <<"a">>)} :
                args = [content |-> <<>>, disk |-> Disk(l, r)]
    /\ trace = args.disk

NextStore ==
    \/ TM_EncryptAndUpload
    \/ TM_DownloadAndDecrypt

SpecStore == InitStore /\ [][NextStore]_vars

\* ===================== process_auth_via_code: from the content to the code
\* Largest number of fields in the query of a redirect URL.
MaxFields == 3

Amp == <<"&">>
RedirectBase == <<"l", "/", "?">>
CodeName == <<"c", "o", "d", "e">>
Field(name, value) == [name |-> name, value |-> value]
FieldText(f) == f.name \o <<"=">> \o f.value

\* Values of the code parameter.
Codes == { <<"A">>, <<"A", "B", "C", "1", "2", "3">> }
\* The parameters that come with it; the name of one ends in "code".
OtherFields ==
    { Field(<<"s">>, <<"1">>),
      Field(<<"f", "o", "o">>, <<"b", "a", "r">>),
      Field(<<"x", "c", "o", "d", "e">>, <<"Q">>) }

\* Queries with the fields in every order, each name at most once.
Queries(fields) ==
    { q \in UNION { [1..n -> fields] : n \in 1..MaxFields } :
        \A i, j \in 1..Len(q) : q[i].name = q[j].name => i = j }

RECURSIVE Join(_, _)
Join(q, sep) ==
    IF q = <<>> THEN <<>>
    ELSE IF Len(q) = 1 THEN FieldText(q[1])
    ELSE FieldText(q[1]) \o sep \o Join(Tail(q), sep)

Content(kind, text, code) == [kind |-> kind, text |-> text, code |-> code]

\* What the artifact file (or the prompted input) can hold after strip():
\* a redirect URL with the code parameter at any place, written plainly or
\* with its "&" escaped as an HTML entity; a URL without the parameter; a
\* bare code; nothing.
Contents ==
    UNION { { Content("url", RedirectBase \o Join(q, sep), c) :
                q \in { r \in Queries(OtherFields \cup {Field(CodeName, c)}) :
                            \E i \in 1..Len(r) : r[i].name = CodeName },
                sep \in {Amp, AmpEntity} } : c \in Codes } \cup
    { Content("no_code", RedirectBase \o Join(q, Amp), <<>>) : q \in Queries(OtherFields) } \cup
    { Content("raw", c, c) : c \in Codes } \cup
    { Content("empty", <<>>, <<>>) }

Code(code) == [kind |-> "code", code |-> code]
ValueError(msg) == [kind |-> "ValueError", code |-> msg]

\* auth_worker.py:98-103
PC_Unescape ==
    /\ fpc.at = "unescape"
    /\ IF args.text = <<>>
       THEN /\ ret' = ValueError(<<"No authorization code received">>)
            /\ fpc' = At("done", 0, 0)
            /\ UNCHANGED trace
       ELSE /\ trace' = HtmlUnescape(args.text)
            /\ fpc' = At("parse", 0, 0)
            /\ UNCHANGED ret
    /\ UNCHANGED <<pageVars, drvVars, fileVars, flowVars, svcVars, args>>

\* auth_worker.py:106-118: the code handed to fetch_token, or the error.
PC_Parse ==
    /\ fpc.at = "parse"
    /\ ret' = IF CodeParam(UrlQuery(trace)) = <<>>
              THEN ValueError(<<"Could not extract code from URL">>)
              ELSE Code(CodeParam(UrlQuery(trace)))
    /\ fpc' = At("done", 0, 0)
    /\ UNCHANGED <<pageVars, drvVars, fileVars, flowVars, svcVars, args, trace>>

InitParseCode ==
    /\ OthersIdle
    /\ flaky = FALSE
    /\ args \in Contents
    /\ fpc = At("unescape", 0, 0)
    /\ trace = <<>>
    /\ ret = "none"

NextParseCode ==
    \/ PC_Unescape
    \/ PC_Parse

SpecParseCode == InitParseCode /\ [][NextParseCode]_vars

\* ------------------------------------------------------ claims on the lines
HasUrlMarker(line) == \E i \in 1..Len(line) : IsPrefixAt(UrlMarker, line, i)
HasVisitMarker(line) == \E i \in 1..Len(line) : IsPrefixAt(VisitMarker, line, i)
HasSavedMarker(line) == \E i \in 1..Len(line) : IsPrefixAt(SavedMarker, line, i)

\* url is what stands between the marker and the end of the line, blanks
\* and the line end apart.
FollowsMarker(url, marker, line) ==
    \E i \in 1..Len(line) :
        /\ IsPrefixAt(marker, line, i)
        /\ LET rest == SubSeq(line, i + Len(marker), Len(line)) IN
            \E j \in 1..Len(rest), k \in 1..Len(rest) :
                /\ url = SubSeq(rest, j, k)
                /\ url # <<>>
                /\ \A n \in 1..Len(rest) : (n < j \/ n > k) => rest[n] \in {" ", "\n"}
                /\ \A n \in j..k : rest[n] \notin {" ", "\n"}

LineIsRead == ppc = "p_read" /\ stdout # <<>> /\ stdout' = Tail(stdout)
DriverStarted == dpc' = "ao_start"

\* C15: in GUI mode, for every line the parent reads: authorize_oauth is
\* started exactly when the line holds one of the two URL markers, and with
\* the URL that follows the marker; a line holding "Credentials saved to"
\* (and no URL marker) ends the flow with the stored credentials; any other
\* line changes nothing; once the flow has ended no driver step is started.
C15_LinesDriveTheFlow ==
    [][ /\ LineIsRead =>
            LET line == Head(stdout) IN
            /\ DriverStarted <=> (HasUrlMarker(line) \/ HasVisitMarker(line))
            /\ DriverStarted =>
                    \/ HasVisitMarker(line) /\ FollowsMarker(auth_url', VisitMarker, line)
                    \/ HasUrlMarker(line) /\ FollowsMarker(auth_url', UrlMarker, line)
            /\ (HasSavedMarker(line) /\ ~DriverStarted) =>
                    ppc' = "p_done" /\ pres' = "creds"
            /\ (~HasSavedMarker(line) /\ ~DriverStarted) =>
                    UNCHANGED <<ppc, pres, drvVars>>
        /\ ppc = "p_done" => UNCHANGED <<ppc, pres, drvVars, stdout>>
      ]_vars

\* The line of the second URL was read and the driver started on that URL,
\* the completion line still to come.
C15_Witness ==
    /\ ppc = "p_driver"
    /\ dpc = "ao_start"
    /\ auth_url = OtherAuthUrl
    /\ stdout = <<SavedLine>>

C17_RawCodeIsUsed ==
    (Done /\ args.kind = "raw") => ret = Code(args.code)

\* ------------------------------------------------- claims on a failed wait
\* The worker left its wait loop with no code and raised.
NoCodeAtEnd == wpc = "w_failed" /\ wcode = NoUrl /\ wcount = WorkerMaxAttempts

\* C18: when the worker's wait ends with no code, nothing is exchanged, no
\* token file is written, and _run_auth_flow ends by raising to its caller.
C18_NoCodeFailureReachesCaller ==
    NoCodeAtEnd =>
        /\ tokenFile # "new"
        /\ ppc = "p_done" => pres = "raised"

\* C19: whatever each read of the artifact file does, the worker goes
\* through its wait loop at most WorkerMaxAttempts times.
C19_WaitLoopBounded == wrounds <= WorkerMaxAttempts

\* ------------------------------------------------- claims on the two waits
Waiting == dpc \in {"ao_2fa", "ao_acct"}

C21_BothWaitsEnd ==
    /\ [](Waiting => polls <= WaitMaxAttempts)
    /\ <>(dpc = "h_brand0")

\* The second wait has used up all its polls, with failing probes possible
\* and its heading not showing.
C21_Witness ==
    /\ dpc = "ao_acct"
    /\ polls = WaitMaxAttempts
    /\ flaky
    /\ heading = SignInHeading

\* ------------------------------------------------ claims on the handler
\* C22: the handler goes through at most HandlerMaxAttempts rounds, a round
\* clicks at most one Continue control (the page moves on by one screen and
\* the round is over), the handler returns at the redirect check that
\* finds a redirect, and once entered it comes to an end.
C22_HandlerTerminates ==
    /\ [](round <= HandlerMaxAttempts)
    /\ [][ /\ (HasContinue(Cur) /\ pos' # pos) =>
                (pos' = pos + 1 /\ round' = round + 1)
           /\ (hres # "True" /\ hres' = "True") => dpc' = "ao_return"
         ]_vars
    /\ (dpc = "h_brand0") ~> (dpc = "done")

\* All rounds were used up on a page that clicked through to a screen
\* without redirect, and the handler returned False.
C22_Witness ==
    /\ dpc = "done"
    /\ hres = "False"
    /\ round = HandlerMaxAttempts
    /\ pos > 1
    /\ writes = 0

\* ------------------------------------------- claims on the consent page
ContinueClicked == Done /\ trace # <<>> /\ trace[Len(trace)].what = "continue"
Boxes == 1..Len(args)
BoxRaised(i) ==
    \E j \in 1..Len(trace) :
        trace[j].box = i /\ trace[j].what \in {"is_checked_raised", "click_raised"}

\* C23 as stated: when Continue is clicked every checkbox of the form is in
\* the checked state.
C23_AllCheckedAtContinue ==
    ContinueClicked => \A i \in Boxes : BoxState(args, trace, i)

\* C23: Continue is clicked after every checkbox was gone through; at that
\* click every checkbox is checked whose is_checked and click did not
\* raise; a checkbox found checked is never clicked; no checkbox is clicked
\* twice.
C23_CheckedUnlessRaised ==
    /\ ContinueClicked =>
            /\ \A i \in Boxes : BoxState(args, trace, i) \/ BoxRaised(i)
            /\ \A j \in 1..(Len(trace) - 1) : trace[j].what # "continue"
    /\ \A j \in 1..Len(trace) :
            trace[j].what = "click" =>
                /\ ~BoxState(args, SubSeq(trace, 1, j - 1), trace[j].box)
                /\ \A k \in 1..(j - 1) : trace[k].box # trace[j].box

\* A form of three boxes, the second already checked: the first and the
\* third were clicked, the second was not, then Continue.
C23_Witness ==
    /\ ContinueClicked
    /\ args = <<FALSE, TRUE, FALSE>>
    /\ trace = <<Did(1, "click"), Did(3, "click"), Did(0, "continue")>>

\* ------------------------------------------------ claims on the store
\* C24: when the store has no file of the requested name,
\* download_and_decrypt returns the local path without raising and leaves
\* the local path as it was: no file is created or changed there.
C24_MissingFileIsFirstTimeSetup ==
    (Done /\ fpc.s = 0 /\ ~(args.disk.remote.kind # "none")) =>
        /\ ret = LocalPath
        /\ trace.local = args.disk.local

\* The store had no such file while the local path held one, and the call
\* has returned.
C24_Witness ==
    /\ Done
    /\ fpc.s = 0
    /\ args.disk.remote = Absent
    /\ args.disk.local = Plain(<<"a">>)
    /\ trace.local = Plain(<<"a">>)
    /\ ret = LocalPath

\* C27: a file of any bytes that is given to encrypt_and_upload and then
\* fetched by download_and_decrypt with the same key is locally the same
\* bytes again (the store being reachable for the upload and the fetch).
C27_RoundTripKeepsBytes ==
    (Done /\ fpc.s = 1) =>
        \/ ret = Exception("upload_folder")
        \/ fpc.k = 1 /\ trace.local.kind = "cipher"
        \/ fpc.k = 1 /\ ret = LocalPath /\ trace.local = Plain(args.content)

\* ------------------------------------------- claims on the missing import
\* C25: without the browser_manager package authorize_oauth raises
\* ImportError at once: no cookie store was removed and no browser opened
\* (so nothing was prompted for or written either), and nothing is retried.
C25_MissingDependencyFailsFirst ==
    /\ (Done /\ ~args.has_browser_manager) =>
            (ret = Exception("ImportError") /\ trace = <<>> /\ fpc.s = 0)
    /\ (~Done /\ ~args.has_browser_manager) => fpc.at = "check"

\* The package is missing while a cookie store lies in the profile, and
\* the call has raised.
C25_Witness ==
    /\ Done
    /\ ~args.has_browser_manager
    /\ args.cookies
    /\ ~args.remove_fails
    /\ ret = Exception("ImportError")

\* -------------------------------------------------- claims on the config
\* C26: after construction headless_mode is True or False: the value given
\* when one was given, and otherwise (is_docker or not has_display) of the
\* constructed object.
C26_HeadlessModeDefined ==
    Done =>
        /\ ret[1] \in {"True", "False"}
        /\ args.headless_mode # "default" => ret[1] = args.headless_mode
        /\ args.headless_mode = "default" =>
                (ret[1] = "True" <=> (trace[1] \/ ~trace[2]))

\* No value was given, the environment names a display and no container:
\* the field was computed as False.
C26_Witness ==
    /\ Done
    /\ args.headless_mode = "default"
    /\ args.is_docker = "default"
    /\ args.has_display = "default"
    /\ args.IS_DOCKER = "unset"
    /\ args.DISPLAY = ":0"
    /\ ret = <<"False">>

\* ---------------------------------------------- claims on skip_auth_flow
\* A call that went past the cache and has returned or raised.
CallEnded == gpc = "idle" /\ Len(log) > 0

\* C28: with skip_auth_flow the authorization flow is never started, and
\* a call that ends without a valid credential returned None, uploaded
\* nothing and built (so cached) nothing.
C28_SkipReturnsNone ==
    skip_auth_flow =>
        /\ \A i \in LogIdx : log[i].op # "auth_flow"
        /\ CallEnded /\ ~Valid(creds) =>
            /\ result = ReturnedNone
            /\ \A i \in LogIdx : log[i].op \notin {"upload", "build"}

\* ------------------------------------------- claims on get_credentials
\* The email and the password known before any prompt: the constructor's
\* value if there is one, else the configured one.
KnownEmail == IF args.email \in {None, <<>>} THEN args.google_email ELSE args.email
KnownPassword ==
    IF args.password \in {None, <<>>} THEN args.google_password ELSE args.password
Missing(v) == v \in {None, <<>>}

FreshLoginOrder ==
    << Op("fill", "#identifierId"), Op("click", "#identifierNext"),
       Op("fill", "input[type=password]"), Op("click", "#passwordNext"),
       Op("_wait_for_2fa", ""), Op("_wait_for_account_selection", "") >>
IsLoginStep(e) == \E i \in 1..Len(FreshLoginOrder) : FreshLoginOrder[i] = e
StepsTaken == SelectSeq(trace, IsLoginStep)

\* C30: with the chooser heading at the start no credentials are asked
\* for and nothing is filled; the fills, clicks and waits that do happen
\* are an initial part of: fill email, click next, fill password, click
\* sign-in, wait for 2FA, wait for account selection; so the password is
\* filled only after the email was submitted.
C30_HeadingDecidesThePath ==
    /\ args.heading_text = ChooserHeading =>
            \A i \in 1..Len(trace) : trace[i].op \notin {"get_credentials", "fill"}
    /\ Len(StepsTaken) <= Len(FreshLoginOrder)
    /\ StepsTaken = SubSeq(FreshLoginOrder, 1, Len(StepsTaken))
    /\ \A i \in 1..Len(trace) :
            trace[i] = Op("fill", "input[type=password]") =>
                \E j \in 1..(i - 1) : trace[j] = Op("click", "#identifierNext")

\* A fresh login that went through every step and on to the handler.
C30_Witness ==
    /\ Done
    /\ ret[1] = "returned"
    /\ args.heading_text = SignInHeading
    /\ StepsTaken = FreshLoginOrder

\* ------------------------------------- claims on the client-secret files
CandidateIds == { candidates[i] : i \in 1..Len(candidates) }
\* The candidates that name a client other than the stored one.
OtherClients == { id \in CandidateIds : id # 0 /\ id # localClient }

Updates ==
    { trace[i] : i \in { j \in 1..Len(trace) :
                            args.files[trace[j]] \notin {0, args.stored_id} } }

\* C32: when the file at local_client_secret_path and the file at another
\* place searched both name a client other than the stored one, the
\* client secret applied is the one of local_client_secret_path.
C32_ConfiguredPathWins ==
    ( /\ Done
      /\ "local_client_secret_path" \in Updates
      /\ Updates # {"local_client_secret_path"} )
    => /\ ret # "none"
       /\ args.files[ret] = args.files["local_client_secret_path"]

\* ------------------------------------ claims on the timing of the waits
\* C33: the worker is still polling when the driver writes the artifact:
\* it never gives up in an attempt whose driver writes a redirect URL at
\* a later time.
C33_WorkerOutlastsDriver ==
    ~(trace.worker = "gave_up" /\ trace.file /\ trace.dclock > trace.wclock)

\* ------------------------------------------ claims on the artifact path
\* C34: the file the worker removes and polls is the file the driver of
\* the parent writes: once the worker waits and the driver has written,
\* the URL is at the worker's path.
C34_SameArtifactFile ==
    (wpc # "idle" /\ writes > 0) =>
        /\ authorization_code_path = WorkerCodePath
        /\ codeFile[WorkerCodePath] \notin {NoFile, StaleUrl}

\* ------------------------- claims on the driver's test and the consumer
\* C35: a URL that passes the driver's test for a redirect (it contains
\* "code=") is one from which the consumer extracts a code that is not
\* empty.
C35_AcceptedUrlYieldsCode ==
    (Done /\ AcceptedAsRedirect(args.text)) =>
        /\ ret.kind = "code"
        /\ ret.code # <<>>

\* ------------------------------------ claims on the credential at build
\* C36: every service is built from a credential that exists and is
\* valid at that point.
C36_BuiltFromValidCredential ==
    \A i \in LogIdx : log[i].op = "build" => Valid(log[i].cred)

\* -------------------------------------- claims on the clicks of a round
\* C37: a round in which the brand-account button was clicked goes from
\* its polls to the next round or to the return, clicking nothing more;
\* the checkboxes and the Continue control are reached only in a round
\* whose brand-account click did not happen, and a Continue click ends
\* the round.
C37_OneNavigatingClickPerRound ==
    [][/\ dpc = "h_poll" =>
            /\ dpc' \in {"h_poll", "h_loop", "ao_return"}
            /\ dpc' = "h_loop" => round' = round + 1
            /\ pos' = pos
            /\ checked' = checked
       /\ dpc' = "h_cb" => dpc = "h_brand" /\ pos' = pos
       /\ dpc' = "h_cont" => dpc = "h_cb" /\ pos' = pos
       /\ (dpc = "h_cont" /\ pos' # pos) =>
            \/ dpc' = "ao_return"
            \/ dpc' = "h_loop" /\ round' = round + 1]_vars

\* The brand-account button was clicked in a round of the loop, the page
\* now shows a Continue control and the last poll of the round is due.
C37_Witness ==
    /\ dpc = "h_poll"
    /\ polls = BrandPolls - 1
    /\ round > 0
    /\ HasContinue(Cur)

\* --------------------------------------------- claims on the service cache
\* C38: the cache changes only at the end of a call that built a service
\* after uploading the credentials in that call, and then only under the
\* non-empty key of the call, which gets the handle returned; calls that
\* return None or raise, or have no key, leave it as it was.
C38_CacheHoldsBuiltHandles ==
    [][services' # services =>
        /\ cache_key # ""
        /\ result'.kind = "service"
        /\ services' = [services EXCEPT ![cache_key] = result'.handle]
        /\ result'.handle # 0
        /\ log # <<>>
        /\ log[Len(log)].op = "upload"]_vars

\* A call with a key has uploaded, built and cached its handle.
C38_Witness ==
    /\ gpc = "idle"
    /\ cache_key # ""
    /\ result.kind = "service"
    /\ services[cache_key] = result.handle
    /\ \E i \in LogIdx : log[i].op = "upload" /\ i + 1 = Len(log)

\* ----------------------------------------- claims on the refresh step
\* C39: the refresh step rewrites the token file only after a refresh
\* that succeeded, with the refreshed credential; after a refresh that
\* failed, and when no refresh is due, the file is as it was.
C39_FileWrittenAfterRefresh ==
    [][gpc = "refresh" =>
        LET last == log'[Len(log')] IN
        /\ localToken' # localToken =>
              /\ Len(log') = Len(log) + 1
              /\ last.op = "refresh_ok"
              /\ localToken' = creds'
              /\ Valid(creds')
        /\ (Len(log') = Len(log) + 1 /\ last.op = "refresh_failed") =>
              localToken' = localToken]_vars

\* A refresh failed, the credential was dropped and the expired token is
\* still in the file.
C39_Witness ==
    /\ gpc = "auth"
    /\ log # <<>>
    /\ log[Len(log)].op = "refresh_failed"
    /\ creds = NoTok
    /\ localToken.exists
    /\ localToken.expired

====
